---------------------------- MODULE Spec2Model ----------------------------
(***************************************************************************)
(* A model of mcp-agent-ledger: the filter normaliser and tool dispatch of *)
(* index.ts, the provider factory, and the three ledger providers (the     *)
(* in-memory MockLedgerProvider, the PostgreSQL-backed                     *)
(* PuzzleLedgerProvider and the ManufactLedgerProvider stub).              *)
(*                                                                         *)
(* Strings are sequences of one-character strings, so that trim,           *)
(* toUpperCase, the YYYY-MM-DD pattern, Date parsing and toISOString are   *)
(* computed character by character.  A JavaScript `undefined` string is    *)
(* the distinguished sequence Undefined.  A Date is a record               *)
(* [valid, day, ms]: day is the number of days since 1970-01-01 (UTC) and  *)
(* ms the milliseconds within that day; an Invalid Date has valid = FALSE. *)
(* Date parsing follows V8 (the engine of Node.js, which runs the server). *)
(***************************************************************************)
EXTENDS Integers, Sequences, FiniteSets, TLC

(***************************************************************************)
(* Characters and strings                                                  *)
(***************************************************************************)
Undefined == <<"undefined">>

DIGITS == <<"0", "1", "2", "3", "4", "5", "6", "7", "8", "9">>

LOWER == <<"a", "b", "c", "d", "e", "f", "g", "h", "i", "j", "k", "l", "m",
           "n", "o", "p", "q", "r", "s", "t", "u", "v", "w", "x", "y", "z">>

UPPER == <<"A", "B", "C", "D", "E", "F", "G", "H", "I", "J", "K", "L", "M",
           "N", "O", "P", "Q", "R", "S", "T", "U", "V", "W", "X", "Y", "Z">>

IsDigit(c) == \E i \in 1..10 : DIGITS[i] = c

DigitVal(c) == (CHOOSE i \in 1..10 : DIGITS[i] = c) - 1

\* String.prototype.toUpperCase / toLowerCase, one character
UpperChar(c) ==
    IF \E i \in 1..26 : LOWER[i] = c
    THEN UPPER[CHOOSE i \in 1..26 : LOWER[i] = c]
    ELSE c

LowerChar(c) ==
    IF \E i \in 1..26 : UPPER[i] = c
    THEN LOWER[CHOOSE i \in 1..26 : UPPER[i] = c]
    ELSE c

toUpperCase(s) == [i \in 1..Len(s) |-> UpperChar(s[i])]

toLowerCase(s) == [i \in 1..Len(s) |-> LowerChar(s[i])]

RECURSIVE TrimStart(_)
TrimStart(s) ==
    IF s # <<>> /\ Head(s) = " " THEN TrimStart(Tail(s)) ELSE s

RECURSIVE TrimEnd(_)
TrimEnd(s) ==
    IF s # <<>> /\ s[Len(s)] = " " THEN TrimEnd(SubSeq(s, 1, Len(s) - 1)) ELSE s

\* String.prototype.trim
trim(s) == TrimEnd(TrimStart(s))

\* JavaScript truthiness of an optional string: undefined and "" are falsy
Truthy(s) == s # Undefined /\ s # <<>>

\* UTF-16 code units of the characters that date strings are made of
CharCode(c) ==
    CASE c = "+" -> 43
      [] c = "-" -> 45
      [] IsDigit(c) -> 48 + DigitVal(c)
      [] OTHER -> 127

\* The relational comparison a > b of two strings (lexicographic by code unit)
RECURSIVE StrGreater(_, _)
StrGreater(a, b) ==
    IF a = <<>> THEN FALSE
    ELSE IF b = <<>> THEN TRUE
    ELSE IF CharCode(Head(a)) # CharCode(Head(b))
         THEN CharCode(Head(a)) > CharCode(Head(b))
         ELSE StrGreater(Tail(a), Tail(b))

(***************************************************************************)
(* Errors and results                                                      *)
(***************************************************************************)
\* throw new LedgerError(code, message)
LedgerError(code) == [ok |-> FALSE, ledger |-> TRUE, code |-> code]

\* any other thrown Error (RangeError, TypeError, a database driver error)
Thrown(name) == [ok |-> FALSE, ledger |-> FALSE, code |-> name]

Ok(v) == [ok |-> TRUE, value |-> v]

(***************************************************************************)
(* Dates (index.ts 476-506)                                                *)
(***************************************************************************)
DEFAULT_WINDOW_DAYS == 30

InvalidDate == [valid |-> FALSE, day |-> 0, ms |-> 0]

DateOf(day, ms) == [valid |-> TRUE, day |-> day, ms |-> ms]

\* Day number of the civil date y-m-d (proleptic Gregorian, 1970-01-01 = 0)
DaysFromCivil(y, m, d) ==
    LET yy  == IF m <= 2 THEN y - 1 ELSE y
        era == yy \div 400
        yoe == yy - era * 400
        mp  == IF m > 2 THEN m - 3 ELSE m + 9
        doy == (153 * mp + 2) \div 5 + d - 1
        doe == yoe * 365 + yoe \div 4 - yoe \div 100 + doy
    IN  era * 146097 + doe - 719468

\* The civil date of a day number
CivilFromDays(z) ==
    LET zz  == z + 719468
        era == zz \div 146097
        doe == zz - era * 146097
        yoe == (doe - doe \div 1460 + doe \div 36524 - doe \div 146096) \div 365
        doy == doe - (365 * yoe + yoe \div 4 - yoe \div 100)
        mp  == (5 * doy + 2) \div 153
        d   == doy - (153 * mp + 2) \div 5 + 1
        m   == IF mp < 10 THEN mp + 3 ELSE mp - 9
        y   == yoe + era * 400 + (IF m <= 2 THEN 1 ELSE 0)
    IN  [y |-> y, m |-> m, d |-> d]

\* ISO_DATE_PATTERN.test(s) with ISO_DATE_PATTERN = /^\d{4}-\d{2}-\d{2}$/
ISO_DATE_PATTERN(s) ==
    /\ Len(s) = 10
    /\ \A i \in {1, 2, 3, 4, 6, 7, 9, 10} : IsDigit(s[i])
    /\ s[5] = "-"
    /\ s[8] = "-"

Num2(s, i) == 10 * DigitVal(s[i]) + DigitVal(s[i + 1])

Num4(s, i) == 100 * Num2(s, i) + Num2(s, i + 2)

\* new Date(`${date}T00:00:00.000Z`) plus a time of day: a string that is not
\* digits in the ISO shape, a month outside 1..12 or a day outside 1..31 gives
\* an Invalid Date; a day past the end of its month rolls into the next month.
DateFromIso(date, ms) ==
    IF ~ISO_DATE_PATTERN(date) THEN InvalidDate
    ELSE LET y == Num4(date, 1)
             m == Num2(date, 6)
             d == Num2(date, 9)
         IN  IF m < 1 \/ m > 12 \/ d < 1 \/ d > 31 THEN InvalidDate
             ELSE DateOf(DaysFromCivil(y, m, 1) + d - 1, ms)

parseUtcDay(date) == DateFromIso(date, 0)

\* next.setUTCDate(next.getUTCDate() + days); NaN stays NaN
shiftDays(date, days) ==
    IF date.valid THEN DateOf(date.day + days, date.ms) ELSE InvalidDate

Pad2(n) == <<DIGITS[(n \div 10) + 1], DIGITS[(n % 10) + 1]>>

Pad4(n) == Pad2(n \div 100) \o Pad2(n % 100)

\* The text of a date, written from its numbers (also numbers that name no day)
IsoDate(y, m, d) == Pad4(y) \o <<"-">> \o Pad2(m) \o <<"-">> \o Pad2(d)

\* The year of toISOString(): four digits for 0..9999, otherwise a sign and
\* six digits
IsoYear(y) ==
    IF y >= 0 /\ y <= 9999 THEN Pad4(y)
    ELSE <<IF y < 0 THEN "-" ELSE "+">>
            \o Pad2((IF y < 0 THEN -y ELSE y) \div 10000)
            \o Pad4((IF y < 0 THEN -y ELSE y) % 10000)

\* The date text of toISOString() for the civil date c
IsoDateOfCivil(c) ==
    IsoYear(c.y) \o <<"-">> \o Pad2(c.m) \o <<"-">> \o Pad2(c.d)

\* The date part (everything before the "T") of date.toISOString()
IsoDatePart(date) == IsoDateOfCivil(CivilFromDays(date.day))

\* date.toISOString().slice(0, 10); toISOString throws a RangeError on an
\* Invalid Date
toDateString(date) ==
    IF date.valid THEN Ok(SubSeq(IsoDatePart(date), 1, 10))
    ELSE Thrown("RangeError")


(***************************************************************************)
(* Ledger values (types.ts, manufact-provider.ts 826-913).  An ISO-8601    *)
(* time stamp `${date}T${time}Z` is the record [date, ms] of its date text *)
(* and its time of day in milliseconds.  vendor and description are        *)
(* carried through every operation untouched, like category, and are left  *)
(* out of the records.                                                     *)
(***************************************************************************)
MS_END_OF_DAY == 86399999

USD == <<"U", "S", "D">>

Iso(date, ms) == [date |-> date, ms |-> ms]

\* Date.parse(text) / new Date(text)
DateParse(text) == DateFromIso(text.date, text.ms)

\* date.toISOString() of a valid Date
toISOString(date) == Iso(IsoDatePart(date), date.ms)

\* toIsoString(value): value.toISOString()
toIsoString(value) == toISOString(value)

\* toStartOfDay(dateIso) / toEndOfDay(dateIso)
toStartOfDay(dateIso) == DateFromIso(dateIso, 0)

toEndOfDay(dateIso) == DateFromIso(dateIso, MS_END_OF_DAY)

\* a.getTime() <= b.getTime(); a comparison with NaN is false
TimeLeq(a, b) ==
    /\ a.valid
    /\ b.valid
    /\ (a.day < b.day \/ (a.day = b.day /\ a.ms <= b.ms))

TimeLess(a, b) ==
    /\ a.valid
    /\ b.valid
    /\ (a.day < b.day \/ (a.day = b.day /\ a.ms < b.ms))

\* Array.prototype.sort (stable) under the comparator "Less(a, b): a first"
SortBy(s, Less(_, _)) ==
    LET rank(i) ==
            Cardinality({j \in DOMAIN s :
                            \/ Less(s[j], s[i])
                            \/ (~Less(s[i], s[j]) /\ j < i)}) + 1
    IN  [k \in DOMAIN s |-> s[CHOOSE i \in DOMAIN s : rank(i) = k]]

\* Array.prototype.filter
Filter(s, Keep(_)) ==
    LET kept == {i \in DOMAIN s : Keep(s[i])}
    IN  [k \in 1..Cardinality(kept) |->
            s[CHOOSE i \in kept : Cardinality({j \in kept : j < i}) = k - 1]]

\* reduce((sum, item) => sum + item.amountMinor, 0)
RECURSIVE SumAmountMinor(_)
SumAmountMinor(s) ==
    IF s = <<>> THEN 0 ELSE SumAmountMinor(SubSeq(s, 1, Len(s) - 1)) + s[Len(s)].amountMinor

\* Math.trunc on the integers the model draws amounts from
MathTrunc(n) == n

\* toInt(value): Math.trunc of a number, 0 for null or undefined
toInt(value) == MathTrunc(value)

\* The comparator turned round: the older one is placed first
sortByOldest(a, b) == TimeLess(DateParse(a.occurredAt), DateParse(b.occurredAt))

\* sortByNewest(a, b) < 0: a is placed before b
sortByNewest(a, b) == TimeLess(DateParse(b.occurredAt), DateParse(a.occurredAt))

\* (a, b) => b.totalExpenseMinor - a.totalExpenseMinor
byTotalDesc(a, b) == b.totalExpenseMinor < a.totalExpenseMinor

\* summarizeByAgent: one entry per agentId in order of first appearance,
\* then sorted by total, largest first
RECURSIVE byAgentMap(_)
byAgentMap(items) ==
    IF items = <<>> THEN <<>>
    ELSE LET rest == byAgentMap(SubSeq(items, 1, Len(items) - 1))
             item == items[Len(items)]
         IN  IF \E i \in DOMAIN rest : rest[i].agentId = item.agentId
             THEN [i \in DOMAIN rest |->
                      IF rest[i].agentId = item.agentId
                      THEN [rest[i] EXCEPT !.totalExpenseMinor = @ + item.amountMinor]
                      ELSE rest[i]]
             ELSE Append(rest, [agentId |-> item.agentId,
                                agentName |-> item.agentName,
                                totalExpenseMinor |-> item.amountMinor])

summarizeByAgent(items) == SortBy(byAgentMap(items), byTotalDesc)

RECURSIVE byCategoryMap(_)
byCategoryMap(items) ==
    IF items = <<>> THEN <<>>
    ELSE LET rest == byCategoryMap(SubSeq(items, 1, Len(items) - 1))
             item == items[Len(items)]
         IN  IF \E i \in DOMAIN rest : rest[i].category = item.category
             THEN [i \in DOMAIN rest |->
                      IF rest[i].category = item.category
                      THEN [rest[i] EXCEPT !.totalExpenseMinor = @ + item.amountMinor]
                      ELSE rest[i]]
             ELSE Append(rest, [category |-> item.category,
                                totalExpenseMinor |-> item.amountMinor])

\* A grouping that takes categories differing in case only for one
summarizeByCategoryFoldingCase(items) ==
    SortBy(byCategoryMap([i \in DOMAIN items |->
                             [items[i] EXCEPT !.category = toLowerCase(@)]]),
           byTotalDesc)

summarizeByCategory(items) == SortBy(byCategoryMap(items), byTotalDesc)

\* balances.reduce(...) over startingMinor, spentMinor and remainingMinor
RECURSIVE BalanceTotals(_)
BalanceTotals(balances) ==
    IF balances = <<>>
    THEN [startingMinor |-> 0, spentMinor |-> 0, remainingMinor |-> 0]
    ELSE LET acc  == BalanceTotals(SubSeq(balances, 1, Len(balances) - 1))
             item == balances[Len(balances)]
         IN  [startingMinor  |-> acc.startingMinor + item.startingMinor,
              spentMinor     |-> acc.spentMinor + item.spentMinor,
              remainingMinor |-> acc.remainingMinor + item.remainingMinor]

\* A balances row whose remainder adds what was spent
BalanceRowAdding(agentId, agentName, startingMinor, spentMinor) ==
    [agentId        |-> agentId,
     agentName      |-> agentName,
     startingMinor  |-> startingMinor,
     spentMinor     |-> spentMinor,
     remainingMinor |-> startingMinor + spentMinor]

\* One row of the balances array
BalanceRow(agentId, agentName, startingMinor, spentMinor) ==
    [agentId        |-> agentId,
     agentName      |-> agentName,
     startingMinor  |-> startingMinor,
     spentMinor     |-> spentMinor,
     remainingMinor |-> startingMinor - spentMinor]

\* A window that leaves out the last millisecond of its last day
MatchesFiltersBeforeEnd(time, agentId, filters) ==
    /\ TimeLeq(toStartOfDay(filters.from), time)
    /\ TimeLess(time, toEndOfDay(filters.to))
    /\ (~Truthy(filters.agentId) \/ agentId = filters.agentId)

\* The where clause shared by the reads: the inclusive UTC day window and the
\* optional agent scope
MatchesFilters(time, agentId, filters) ==
    /\ TimeLeq(toStartOfDay(filters.from), time)
    /\ TimeLeq(time, toEndOfDay(filters.to))
    /\ (~Truthy(filters.agentId) \/ agentId = filters.agentId)

(***************************************************************************)
(* Seed data of the in-memory provider (manufact-provider.ts 54-172)       *)
(***************************************************************************)
AGENT_ATLAS == <<"a", "g", "e", "n", "t", "-", "a", "t", "l", "a", "s">>

AGENT_BEACON == <<"a", "g", "e", "n", "t", "-", "b", "e", "a", "c", "o", "n">>

AGENT_CIPHER == <<"a", "g", "e", "n", "t", "-", "c", "i", "p", "h", "e", "r">>

ATLAS == <<"A", "t", "l", "a", "s">>

BEACON == <<"B", "e", "a", "c", "o", "n">>

CIPHER == <<"C", "i", "p", "h", "e", "r">>

AGENTS ==
    <<[id |-> AGENT_ATLAS, name |-> ATLAS],
      [id |-> AGENT_BEACON, name |-> BEACON],
      [id |-> AGENT_CIPHER, name |-> CIPHER]>>

STARTING_BALANCE_BY_AGENT(id) ==
    CASE id = AGENT_ATLAS -> 250000
      [] id = AGENT_BEACON -> 180000
      [] id = AGENT_CIPHER -> 220000
      [] OTHER -> 0

SOFTWARE == <<"s", "o", "f", "t", "w", "a", "r", "e">>

INFRASTRUCTURE ==
    <<"i", "n", "f", "r", "a", "s", "t", "r", "u", "c", "t", "u", "r", "e">>

TRAVEL == <<"t", "r", "a", "v", "e", "l">>

OPERATIONS == <<"o", "p", "e", "r", "a", "t", "i", "o", "n", "s">>

ExpId(n) == <<"e", "x", "p", "-">> \o <<DIGITS[(n \div 100) + 1]>> \o Pad2(n % 100)

HourMinute(h, m) == (h * 60 + m) * 60000

SeedExpense(n, agent, category, amountMinor, y, m, d, hh, mm) ==
    [id          |-> ExpId(n),
     agentId     |-> agent.id,
     agentName   |-> agent.name,
     category    |-> category,
     amountMinor |-> amountMinor,
     occurredAt  |-> Iso(IsoDate(y, m, d), HourMinute(hh, mm))]

SEED_MOCK_EXPENSES ==
    <<SeedExpense(1, AGENTS[1], SOFTWARE, 18400, 2026, 2, 20, 16, 12),
      SeedExpense(2, AGENTS[2], INFRASTRUCTURE, 29900, 2026, 2, 18, 9, 5),
      SeedExpense(3, AGENTS[3], TRAVEL, 44500, 2026, 2, 15, 11, 42),
      SeedExpense(4, AGENTS[1], OPERATIONS, 5000, 2026, 2, 12, 10, 17),
      SeedExpense(5, AGENTS[3], SOFTWARE, 6800, 2026, 2, 11, 13, 20),
      SeedExpense(6, AGENTS[2], OPERATIONS, 3100, 2026, 2, 8, 18, 30),
      SeedExpense(7, AGENTS[1], TRAVEL, 21300, 2026, 2, 5, 21, 0),
      SeedExpense(8, AGENTS[2], INFRASTRUCTURE, 8400, 2026, 2, 3, 7, 44),
      SeedExpense(9, AGENTS[3], OPERATIONS, 4500, 2026, 1, 30, 10, 58),
      SeedExpense(10, AGENTS[1], SOFTWARE, 7200, 2026, 1, 26, 15, 25)>>

(***************************************************************************)
(* In-memory provider (manufact-provider.ts 186-339), as functions of the  *)
(* module-level mockExpenses list                                          *)
(***************************************************************************)
\* A lookup that makes up an entry for an id the roster does not have
AGENT_BY_ID_OR_NEW(id) ==
    IF \E i \in DOMAIN AGENTS : AGENTS[i].id = id
    THEN {AGENTS[i] : i \in {j \in DOMAIN AGENTS : AGENTS[j].id = id}}
    ELSE {[id |-> id, name |-> id]}

\* AGENT_BY_ID.get(id): the roster entry, or no entry
AGENT_BY_ID(id) == {AGENTS[i] : i \in {j \in DOMAIN AGENTS : AGENTS[j].id = id}}

\* /^exp-(\d+)$/.exec(id)
MatchesExpId(id) ==
    /\ Len(id) >= 5
    /\ SubSeq(id, 1, 4) = <<"e", "x", "p", "-">>
    /\ \A i \in 5..Len(id) : IsDigit(id[i])

\* Number.parseInt(digits, 10)
RECURSIVE parseInt(_)
parseInt(digits) ==
    IF digits = <<>> THEN 0
    ELSE 10 * parseInt(SubSeq(digits, 1, Len(digits) - 1))
         + DigitVal(digits[Len(digits)])

\* String(n) of a natural number
RECURSIVE DecimalString(_)
DecimalString(n) ==
    IF n < 10 THEN <<DIGITS[n + 1]>>
    ELSE DecimalString(n \div 10) \o <<DIGITS[(n % 10) + 1]>>

\* text.padStart(3, "0")
RECURSIVE padStart3(_)
padStart3(text) == IF Len(text) >= 3 THEN text ELSE padStart3(<<"0">> \o text)

RECURSIVE MaxOrdinal(_)
MaxOrdinal(items) ==
    IF items = <<>> THEN 0
    ELSE LET max  == MaxOrdinal(SubSeq(items, 1, Len(items) - 1))
             item == items[Len(items)]
         IN  IF ~MatchesExpId(item.id) THEN max
             ELSE IF parseInt(SubSeq(item.id, 5, Len(item.id))) > max
                  THEN parseInt(SubSeq(item.id, 5, Len(item.id)))
                  ELSE max

\* An id that counts the stored expenses of the newest day only: the id of
\* the last stored expense is given out again
lastExpenseId(store) == store[Len(store)].id

nextExpenseId(store) ==
    <<"e", "x", "p", "-">> \o padStart3(DecimalString(MaxOrdinal(store) + 1))

getFilteredExpenses(store, filters) ==
    LET Keep(item) ==
            MatchesFilters(DateParse(item.occurredAt), item.agentId, filters)
    IN  Filter(store, Keep)

\* The summary of MockLedgerProvider.getExpenses
MockSummary(items) ==
    [totalExpenseMinor |-> SumAmountMinor(items),
     expenseCount      |-> Len(items),
     byAgent           |-> summarizeByAgent(items),
     byCategory        |-> summarizeByCategory(items)]

MockGetExpenses(store, filters) ==
    IF filters.currency # USD THEN LedgerError("UNSUPPORTED_CURRENCY")
    ELSE LET items == SortBy(getFilteredExpenses(store, filters), sortByNewest)
         IN  Ok([currency |-> filters.currency,
                 from     |-> filters.from,
                 to       |-> filters.to,
                 expenses |-> items,
                 summary  |-> MockSummary(items)])

\* spentByAgent[id] ?? 0
MockSpentByAgent(items, id) ==
    LET Mine(item) == item.agentId = id
    IN  SumAmountMinor(Filter(items, Mine))

MockBalances(store, filters) ==
    LET filteredExpenses == getFilteredExpenses(store, filters)
        Selected(agent)  == ~Truthy(filters.agentId) \/ agent.id = filters.agentId
        selectedAgents   == Filter(AGENTS, Selected)
    IN  [i \in DOMAIN selectedAgents |->
            BalanceRow(selectedAgents[i].id, selectedAgents[i].name,
                       STARTING_BALANCE_BY_AGENT(selectedAgents[i].id),
                       MockSpentByAgent(filteredExpenses, selectedAgents[i].id))]

MockGetBalance(store, filters, clock) ==
    IF filters.currency # USD THEN LedgerError("UNSUPPORTED_CURRENCY")
    ELSE Ok([currency |-> filters.currency,
             asOf     |-> toISOString(clock),
             balances |-> MockBalances(store, filters),
             totals   |-> BalanceTotals(MockBalances(store, filters))])

\* The checks of MockLedgerProvider.trackExpense, in the order of the code
MockTrackError(input) ==
    IF input.currency # USD THEN LedgerError("UNSUPPORTED_CURRENCY")
    ELSE IF AGENT_BY_ID(input.agentId) = {} THEN LedgerError("INVALID_AGENT")
    ELSE IF MathTrunc(input.amountMinor) <= 0 THEN LedgerError("INVALID_AMOUNT")
    ELSE IF ~DateParse(input.occurredAt).valid THEN LedgerError("INVALID_DATE")
    ELSE Ok(TRUE)

\* The expense object MockLedgerProvider.trackExpense builds
MockNewExpense(store, input) ==
    LET agent == CHOOSE a \in AGENT_BY_ID(input.agentId) : TRUE
    IN  [id          |-> nextExpenseId(store),
         agentId     |-> agent.id,
         agentName   |-> agent.name,
         category    |-> input.category,
         amountMinor |-> MathTrunc(input.amountMinor),
         occurredAt  |-> toISOString(DateParse(input.occurredAt))]

\* MockLedgerProvider.trackExpense: the result and the new mockExpenses
MockTrackExpense(store, input) ==
    IF ~MockTrackError(input).ok
    THEN [result |-> MockTrackError(input), store |-> store]
    ELSE [result |-> Ok([currency |-> input.currency,
                         expense  |-> MockNewExpense(store, input)]),
          store  |-> Append(store, MockNewExpense(store, input))]

(***************************************************************************)
(* The relational store (schema and first migration, unnamed/part_003) and *)
(* the statements PuzzleLedgerProvider sends to it.  A table is the        *)
(* sequence of its rows in insertion order; rows are never updated or      *)
(* deleted.  Each statement runs atomically against the tables as they are *)
(* when it runs.                                                           *)
(***************************************************************************)
AgentRow(id, name, startingMinor) ==
    [id |-> id, name |-> name, startingMinor |-> startingMinor, currency |-> USD]

\* INSERT INTO "agents" ... of the first migration
SEED_AGENTS ==
    <<AgentRow(AGENT_ATLAS, ATLAS, 250000),
      AgentRow(AGENT_BEACON, BEACON, 180000),
      AgentRow(AGENT_CIPHER, CIPHER, 220000)>>

\* An error raised by the database driver (not a LedgerError)
DatabaseError == Thrown("DatabaseError")

\* new LedgerError("PROVIDER_UNAVAILABLE", `${fallbackMessage} ${detail}`):
\* detail is the message of the error caught, which the model names by the
\* kind of that error
ProviderUnavailable(detail) ==
    [ok |-> FALSE, ledger |-> TRUE, code |-> "PROVIDER_UNAVAILABLE",
     message |-> detail]

\* A wrapper that lets every error through as it is
rethrow(err) == err

\* toPuzzleDatabaseError(err, fallbackMessage)
toPuzzleDatabaseError(err) ==
    IF err.ledger THEN err ELSE ProviderUnavailable(err.code)

\* The servers PUZZLE_DATABASE_URL may name: one that answers every
\* statement, one that refuses every connection, and one that drops a
\* connection now and then
RELIABLE_URL == <<"p">>

DOWN_URL == <<"d">>

FLAKY_URL == <<"f">>

\* Whether the driver may throw on a statement sent to the server of e
StatementFailures(e) ==
    CASE e.PUZZLE_DATABASE_URL = DOWN_URL -> {TRUE}
      [] e.PUZZLE_DATABASE_URL = FLAKY_URL -> {FALSE, TRUE}
      [] OTHER -> {FALSE}

\* assertUsdCurrency(currency): the error thrown, if any
assertUsdCurrency(currency) ==
    IF currency # USD THEN LedgerError("UNSUPPORTED_CURRENCY") ELSE Ok(TRUE)

\* getPuzzleDatabase(): needs a non-empty PUZZLE_DATABASE_URL
getPuzzleDatabase(e) ==
    IF e.PUZZLE_DATABASE_URL = Undefined \/ trim(e.PUZZLE_DATABASE_URL) = <<>>
    THEN LedgerError("PROVIDER_NOT_CONFIGURED")
    ELSE Ok(TRUE)

\* The constraints of table agents: agents_starting_minor_non_negative and
\* agents_currency_usd
AgentRowAllowed(row) == row.startingMinor >= 0 /\ row.currency = USD

\* insert(agents).values(row).returning({id}) without the conflict clause:
\* a row whose id is taken violates the primary key
PgInsertAgent(agentsT, row) ==
    IF (\E i \in DOMAIN agentsT : agentsT[i].id = row.id) \/ ~AgentRowAllowed(row)
    THEN [ok |-> FALSE, table |-> agentsT, returning |-> <<>>]
    ELSE [ok |-> TRUE, table |-> Append(agentsT, row),
          returning |-> <<[id |-> row.id]>>]

\* An insert that on a conflict overwrites the row that is there
PgInsertAgentOnConflictDoUpdate(agentsT, row) ==
    IF ~AgentRowAllowed(row)
    THEN [ok |-> FALSE, table |-> agentsT, returning |-> <<>>]
    ELSE IF \E i \in DOMAIN agentsT : agentsT[i].id = row.id
    THEN [ok |-> TRUE,
          table |-> [i \in DOMAIN agentsT |->
                        IF agentsT[i].id = row.id THEN row ELSE agentsT[i]],
          returning |-> <<[id |-> row.id]>>]
    ELSE [ok |-> TRUE, table |-> Append(agentsT, row),
          returning |-> <<[id |-> row.id]>>]

\* insert(agents).values(row).onConflictDoNothing({target: agents.id})
\*   .returning({id}): the table afterwards and the rows returned
PgInsertAgentOnConflictDoNothing(agentsT, row) ==
    IF \E i \in DOMAIN agentsT : agentsT[i].id = row.id
    THEN [ok |-> TRUE, table |-> agentsT, returning |-> <<>>]
    ELSE IF ~AgentRowAllowed(row)
    THEN [ok |-> FALSE, table |-> agentsT, returning |-> <<>>]
    ELSE [ok |-> TRUE, table |-> Append(agentsT, row),
          returning |-> <<[id |-> row.id]>>]

\* select({id, name}).from(agents).where(eq(agents.id, id)).limit(1)
PgSelectAgentById(agentsT, id) ==
    LET Mine(row) == row.id = id
        found     == Filter(agentsT, Mine)
    IN  IF found = <<>> THEN <<>> ELSE <<found[1]>>

\* A table expenses without constraints
ExpenseRowUnchecked(agentsT, row) == TRUE

\* The constraints of table expenses: expenses_amount_minor_positive,
\* expenses_currency_usd and the foreign key to agents
ExpenseRowAllowed(agentsT, row) ==
    /\ row.amountMinor > 0
    /\ row.currency = USD
    /\ \E i \in DOMAIN agentsT : agentsT[i].id = row.agentId

\* insert(expenses).values(values).returning(...); id is gen_random_uuid(),
\* a value no earlier row has
PgInsertExpense(agentsT, expensesT, values) ==
    LET row == [id          |-> Len(expensesT) + 1,
                agentId     |-> values.agentId,
                category    |-> values.category,
                amountMinor |-> values.amountMinor,
                currency    |-> values.currency,
                occurredAt  |-> values.occurredAt]
    IN  IF ExpenseRowAllowed(agentsT, row)
        THEN [ok |-> TRUE, table |-> Append(expensesT, row), returning |-> <<row>>]
        ELSE [ok |-> FALSE, table |-> expensesT, returning |-> <<>>]

\* whereClause of getExpenses and spentWhereClause of getBalance
PgWhere(expensesT, filters) ==
    LET Keep(row) ==
            /\ MatchesFilters(row.occurredAt, row.agentId, filters)
            /\ row.currency = filters.currency
    IN  Filter(expensesT, Keep)

\* agents.name of the row an inner join pairs with an expense
PgAgentName(agentsT, id) == (CHOOSE i \in DOMAIN agentsT : agentsT[i].id = id)

PgJoined(agentsT, expensesT, filters) ==
    LET HasAgent(row) == \E i \in DOMAIN agentsT : agentsT[i].id = row.agentId
    IN  Filter(PgWhere(expensesT, filters), HasAgent)

\* ORDER BY occurred_at DESC
PgNewestFirst(a, b) == TimeLess(b.occurredAt, a.occurredAt)

\* The first statement of getExpenses, mapped to Expense objects
PgSelectExpenses(agentsT, expensesT, filters) ==
    LET rows == SortBy(PgJoined(agentsT, expensesT, filters), PgNewestFirst)
    IN  [i \in DOMAIN rows |->
            [id          |-> rows[i].id,
             agentId     |-> rows[i].agentId,
             agentName   |-> agentsT[PgAgentName(agentsT, rows[i].agentId)].name,
             category    |-> rows[i].category,
             amountMinor |-> toInt(rows[i].amountMinor),
             occurredAt  |-> toIsoString(rows[i].occurredAt)]]

\* The second statement: coalesce(sum(amount_minor), 0) and count(*)
PgSelectTotals(expensesT, filters) ==
    [totalExpenseMinor |-> toInt(SumAmountMinor(PgWhere(expensesT, filters))),
     expenseCount      |-> toInt(Len(PgWhere(expensesT, filters)))]

\* The third statement: GROUP BY agent_id, agents.name (a set: SQL gives the
\* groups in no particular order)
PgSelectByAgent(agentsT, expensesT, filters) ==
    LET rows == PgJoined(agentsT, expensesT, filters)
        Of(id) == LET Mine(row) == row.agentId = id IN Filter(rows, Mine)
    IN  {[agentId           |-> rows[i].agentId,
          agentName         |-> agentsT[PgAgentName(agentsT, rows[i].agentId)].name,
          totalExpenseMinor |-> toInt(SumAmountMinor(Of(rows[i].agentId)))]
            : i \in DOMAIN rows}

\* The fourth statement: GROUP BY category
PgSelectByCategory(expensesT, filters) ==
    LET rows == PgWhere(expensesT, filters)
        Of(c) == LET Mine(row) == row.category = c IN Filter(rows, Mine)
    IN  {[category          |-> rows[i].category,
          totalExpenseMinor |-> toInt(SumAmountMinor(Of(rows[i].category)))]
            : i \in DOMAIN rows}

\* The orders in which a statement may return the rows of a set
RowOrders(S) ==
    {order \in [1..Cardinality(S) -> S] :
        \A i, j \in 1..Cardinality(S) : order[i] = order[j] => i = j}

\* A select that leaves the where clause out
PgSelectAllAgents(agentsT, filters) == agentsT

\* The first statement of getBalance: the agents in scope
PgSelectAgents(agentsT, filters) ==
    LET Selected(row) == ~Truthy(filters.agentId) \/ row.id = filters.agentId
    IN  Filter(agentsT, Selected)

\* The second statement of getBalance: sum(amount_minor) GROUP BY agent_id,
\* read through spentByAgent.get(id) ?? 0
PgSpentByAgent(expensesT, filters, id) ==
    LET Mine(row) == row.agentId = id
    IN  toInt(SumAmountMinor(Filter(PgWhere(expensesT, filters), Mine)))

PgBalances(selectedAgents, expensesT, filters) ==
    [i \in DOMAIN selectedAgents |->
        BalanceRow(selectedAgents[i].id, selectedAgents[i].name,
                   toInt(selectedAgents[i].startingMinor),
                   PgSpentByAgent(expensesT, filters, selectedAgents[i].id))]

(***************************************************************************)
(* Stub provider (manufact-provider.ts 8-39)                               *)
(***************************************************************************)
\* ensureManufactConfigured(), then the unconditional NOT_IMPLEMENTED
ManufactRead(e) ==
    IF ~Truthy(e.MANUFACT_API_KEY) \/ ~Truthy(e.MANUFACT_BASE_URL)
    THEN LedgerError("PROVIDER_NOT_CONFIGURED")
    ELSE LedgerError("NOT_IMPLEMENTED")

\* ManufactLedgerProvider declares getExpenses and getBalance only: calling
\* provider.trackExpense(...) on it throws a TypeError
ManufactTrackExpense(e) == Thrown("TypeError")

(***************************************************************************)
(* State                                                                   *)
(***************************************************************************)
VARIABLES
    now,            \* the clock: what new Date() returns
    env,            \* process.env
    mockExpenses,   \* the module-level list of the in-memory provider
    agents,         \* table agents
    expenses,       \* table expenses
    task,           \* the provider calls in progress and their results
    nfInput,        \* the last input handed to normalizeFilters
    nfResult,       \* what normalizeFilters returned or threw for it
    call            \* the tool call the server is handling

vars ==
    <<now, env, mockExpenses, agents, expenses, task, nfInput, nfResult, call>>

stores == <<mockExpenses, agents, expenses>>

(***************************************************************************)
(* Filter normaliser (index.ts 355-403)                                    *)
(***************************************************************************)
DEFAULT_CURRENCY == <<"U", "S", "D">>

\* input.currency?.trim().toUpperCase() || DEFAULT_CURRENCY
normalizeCurrency(currency) ==
    IF currency # Undefined /\ toUpperCase(trim(currency)) # <<>>
    THEN toUpperCase(trim(currency))
    ELSE DEFAULT_CURRENCY

\* input.agentId?.trim() || undefined
normalizeAgentId(agentId) ==
    IF agentId # Undefined /\ trim(agentId) # <<>> THEN trim(agentId)
    ELSE Undefined

\* toDate of resolveDateRange: the given day, or the day of the clock
ToDate(toInput, clock) ==
    IF Truthy(toInput) THEN parseUtcDay(toInput)
    ELSE parseUtcDay(toDateString(clock).value)

\* fromDate of resolveDateRange: the given day, or toDate shifted back
FromDate(fromInput, toDate) ==
    IF Truthy(fromInput) THEN parseUtcDay(fromInput)
    ELSE shiftDays(toDate, -(DEFAULT_WINDOW_DAYS - 1))

\* The object resolveDateRange returns, or the RangeError that toDateString
\* throws on an Invalid Date
DateRange(from, to) ==
    IF ~from.ok THEN from
    ELSE IF ~to.ok THEN to
    ELSE Ok([from |-> from.value, to |-> to.value])

\* resolveDateRange(fromInput, toInput)
resolveDateRange(fromInput, toInput, clock) ==
    DateRange(toDateString(FromDate(fromInput, ToDate(toInput, clock))),
              toDateString(ToDate(toInput, clock)))

\* normalizeFilters without the range check
UncheckedFilters(input, dateRange) ==
    IF ~dateRange.ok THEN dateRange
    ELSE Ok([agentId  |-> normalizeAgentId(input.agentId),
             from     |-> dateRange.value.from,
             to       |-> dateRange.value.to,
             currency |-> normalizeCurrency(input.currency)])

\* normalizeFilters from the range check on
CheckedFilters(input, dateRange) ==
    IF ~dateRange.ok THEN dateRange
    ELSE IF StrGreater(dateRange.value.from, dateRange.value.to)
    THEN LedgerError("INVALID_DATE_RANGE")
    ELSE Ok([agentId  |-> normalizeAgentId(input.agentId),
             from     |-> dateRange.value.from,
             to       |-> dateRange.value.to,
             currency |-> normalizeCurrency(input.currency)])

\* normalizeFilters(input): the filters returned, or what is thrown
normalizeFilters(input, clock) ==
    IF Truthy(input.from) /\ ~ISO_DATE_PATTERN(input.from)
    THEN LedgerError("INVALID_DATE")
    ELSE IF Truthy(input.to) /\ ~ISO_DATE_PATTERN(input.to)
    THEN LedgerError("INVALID_DATE")
    ELSE CheckedFilters(input, resolveDateRange(input.from, input.to, clock))

\* A fallback that keeps the dates of the input
safeNormalizeFiltersKeepingDates(input, clock) ==
    IF normalizeFilters(input, clock).ok THEN normalizeFilters(input, clock).value
    ELSE [from     |-> input.from,
          to       |-> input.to,
          currency |-> normalizeCurrency(input.currency),
          agentId  |-> normalizeAgentId(input.agentId)]

\* safeNormalizeFilters(input): the filters of normalizeFilters, or, when it
\* throws, today for both dates
safeNormalizeFilters(input, clock) ==
    IF normalizeFilters(input, clock).ok THEN normalizeFilters(input, clock).value
    ELSE [from     |-> toDateString(clock).value,
          to       |-> toDateString(clock).value,
          currency |-> normalizeCurrency(input.currency),
          agentId  |-> normalizeAgentId(input.agentId)]

(***************************************************************************)
(* Inputs of the bounded exploration                                         *)
(***************************************************************************)
\* The clock values tried: noon of 2026-03-05 and of 2026-01-15
Clocks ==
    {DateOf(DaysFromCivil(2026, 3, 5), 43200000),
     DateOf(DaysFromCivil(2026, 1, 15), 43200000)}

WellFormedDates ==
    {IsoDate(2026, 2, 10), IsoDate(2026, 2, 20), IsoDate(2027, 1, 1),
     IsoDate(0, 1, 15)}

\* Digit strings in the YYYY-MM-DD shape that name no calendar day
NoSuchDays == {IsoDate(2026, 2, 30), IsoDate(2026, 13, 1)}

\* "", "2026-2-1" and "2026/02/10"
MalformedDates ==
    {<<>>,
     <<"2", "0", "2", "6", "-", "2", "-", "1">>,
     <<"2", "0", "2", "6", "/", "0", "2", "/", "1", "0">>}

DateInputs == {Undefined} \cup WellFormedDates \cup NoSuchDays \cup MalformedDates

CurrencyInputs ==
    {Undefined, <<>>, <<" ", "u", "s", "d", " ">>, <<"U", "S", "D">>,
     <<"e", "u", "r">>}

AgentIdInputs == {Undefined, <<" ">>, AGENT_ATLAS \o <<" ">>}

FilterInputs ==
    [agentId : AgentIdInputs, from : DateInputs, to : DateInputs,
     currency : CurrencyInputs]

NoInput == [agentId |-> Undefined, from |-> Undefined, to |-> Undefined,
            currency |-> Undefined, none |-> TRUE]

NoResult == [ok |-> FALSE, ledger |-> FALSE, code |-> "none"]

\* The provider calls that may be in progress at the same time
Tasks == {"t1", "t2"}

IdleTask == [pc |-> "idle"]

IdleCall == [pc |-> "idle"]

\* process.env with every setting of the three backends present
ConfiguredEnv ==
    [LEDGER_PROVIDER     |-> Undefined,
     MANUFACT_API_KEY    |-> <<"k">>,
     MANUFACT_BASE_URL   |-> <<"u">>,
     PUZZLE_DATABASE_URL |-> RELIABLE_URL]

(***************************************************************************)
(* The normaliser applied to every input                                   *)
(***************************************************************************)
InitNorm ==
    /\ now \in Clocks
    /\ env = ConfiguredEnv
    /\ mockExpenses = SEED_MOCK_EXPENSES
    /\ agents = SEED_AGENTS
    /\ expenses = <<>>
    /\ task = [t \in Tasks |-> IdleTask]
    /\ nfInput = NoInput
    /\ nfResult = NoResult
    /\ call = IdleCall

\* One call of normalizeFilters(input)
NormalizeFilters ==
    /\ nfInput = NoInput
    /\ \E input \in FilterInputs :
           /\ nfInput' = input
           /\ nfResult' = normalizeFilters(input, now)
    /\ UNCHANGED <<now, env, stores, task, call>>

\* The caller is done with the result
NormalizeReturn ==
    /\ nfInput # NoInput
    /\ nfInput' = NoInput
    /\ nfResult' = NoResult
    /\ UNCHANGED <<now, env, stores, task, call>>

NextNorm == NormalizeFilters \/ NormalizeReturn

SpecNorm == InitNorm /\ [][NextNorm]_vars

NormCalled == nfInput \in FilterInputs

(***************************************************************************)
(* Properties of normalizeFilters, checked under SpecNorm                  *)
(***************************************************************************)
\* A YYYY-MM-DD text that names a day of the calendar
IsCalendarDay(s) ==
    /\ ISO_DATE_PATTERN(s)
    /\ parseUtcDay(s).valid
    /\ IsoDatePart(parseUtcDay(s)) = s

\* The current UTC calendar date
Today == IsoDatePart(now)

\* C8: with from and to omitted the filters have to = today (UTC) and from =
\* to minus 29 days; with only from omitted, to is the given date and from is
\* that date minus 29 days; with only to omitted, to = today and from is the
\* given value.
C8_DateDefaults ==
    (/\ NormCalled
     /\ nfInput.from = Undefined \/ ISO_DATE_PATTERN(nfInput.from)
     /\ nfInput.to = Undefined \/ ISO_DATE_PATTERN(nfInput.to)
     /\ nfInput.from = Undefined \/ nfInput.to = Undefined
     /\ nfResult # LedgerError("INVALID_DATE_RANGE")) =>
        /\ nfResult.ok
        /\ nfResult.value.to = IF nfInput.to = Undefined THEN Today ELSE nfInput.to
        /\ IF nfInput.from # Undefined
           THEN nfResult.value.from = nfInput.from
           ELSE /\ ISO_DATE_PATTERN(nfResult.value.from)
                /\ parseUtcDay(nfResult.value.from).day
                       = parseUtcDay(nfResult.value.to).day
                             - (DEFAULT_WINDOW_DAYS - 1)

\* C10: normalizeFilters fails with INVALID_DATE, and in no other way,
\* whenever from or to is present and is not a well-formed YYYY-MM-DD date
\* (the empty string and a month 13 included).
C10_MalformedDateRejected ==
    (/\ NormCalled
     /\ \/ nfInput.from # Undefined /\ ~IsCalendarDay(nfInput.from)
        \/ nfInput.to # Undefined /\ ~IsCalendarDay(nfInput.to)) =>
        nfResult = LedgerError("INVALID_DATE")


(***************************************************************************)
(* Provider calls.  A call of the in-memory provider or of the stub runs   *)
(* to its end without an await, so it is one step.  A call of the          *)
(* relational provider runs up to its first statement and then advances    *)
(* one statement at a time, other calls running in between.                *)
(***************************************************************************)
DoneTask(provider, op, input, loc, result) ==
    [pc |-> "done", provider |-> provider, op |-> op, input |-> input,
     loc |-> loc, result |-> result]

RunningTask(provider, op, input, pc, loc) ==
    [pc |-> pc, provider |-> provider, op |-> op, input |-> input,
     loc |-> loc, result |-> NoResult]

NoLocals == [wasAgentCreated |-> FALSE, inserted |-> FALSE]

\* Both ends of the window must be dates for the statements to be sent
WindowIsValid(filters) ==
    toStartOfDay(filters.from).valid /\ toEndOfDay(filters.to).valid

\* What a read of the relational provider does before its first statement:
\* the error it ends with, or Ok
PuzzleReadStart(filters, e) ==
    IF ~assertUsdCurrency(filters.currency).ok
    THEN assertUsdCurrency(filters.currency)
    ELSE IF ~getPuzzleDatabase(e).ok
    THEN toPuzzleDatabaseError(getPuzzleDatabase(e))
    ELSE IF ~WindowIsValid(filters)
    THEN toPuzzleDatabaseError(Thrown("RangeError"))
    ELSE Ok(TRUE)

GetExpensesStatements == {"expenses", "totals", "byAgent", "byCategory"}

GetExpensesLocals ==
    [pending    |-> GetExpensesStatements,
     expenses   |-> <<>>,
     totals     |-> [totalExpenseMinor |-> 0, expenseCount |-> 0],
     byAgent    |-> <<>>,
     byCategory |-> <<>>]

\* A read that sorts the module-level list itself
MockStoreSortedInPlace(provider, store) ==
    IF provider = "mock" THEN SortBy(store, sortByNewest) ELSE store

\* mockExpenses after a read: mockExpenses.filter(...) makes a new array, and
\* it is this array that getExpenses sorts; the list itself is as before
MockStoreAfterRead(provider, store) == store

\* provider.getExpenses(filters) up to its first await
StartGetExpenses(provider, filters) ==
    CASE provider = "mock" ->
            DoneTask(provider, "getExpenses", filters, NoLocals,
                     MockGetExpenses(mockExpenses, filters))
      [] provider = "manufact" ->
            DoneTask(provider, "getExpenses", filters, NoLocals, ManufactRead(env))
      [] provider = "puzzle" ->
            IF PuzzleReadStart(filters, env).ok
            THEN RunningTask(provider, "getExpenses", filters, "statements",
                             GetExpensesLocals)
            ELSE DoneTask(provider, "getExpenses", filters, NoLocals,
                          PuzzleReadStart(filters, env))

\* A getBalance that is asked for every agent, whatever agentId the filters
\* name
StartGetBalanceOfEveryone(provider, filters) ==
    CASE provider = "mock" ->
            DoneTask(provider, "getBalance", [filters EXCEPT !.agentId = Undefined],
                     NoLocals,
                     MockGetBalance(mockExpenses,
                                    [filters EXCEPT !.agentId = Undefined], now))
      [] provider = "manufact" ->
            DoneTask(provider, "getBalance", [filters EXCEPT !.agentId = Undefined],
                     NoLocals, ManufactRead(env))
      [] provider = "puzzle" ->
            IF PuzzleReadStart(filters, env).ok
            THEN RunningTask(provider, "getBalance",
                             [filters EXCEPT !.agentId = Undefined],
                             "select-agents", [selectedAgents |-> <<>>])
            ELSE DoneTask(provider, "getBalance",
                          [filters EXCEPT !.agentId = Undefined], NoLocals,
                          PuzzleReadStart(filters, env))

\* provider.getBalance(filters) up to its first await
StartGetBalance(provider, filters) ==
    CASE provider = "mock" ->
            DoneTask(provider, "getBalance", filters, NoLocals,
                     MockGetBalance(mockExpenses, filters, now))
      [] provider = "manufact" ->
            DoneTask(provider, "getBalance", filters, NoLocals, ManufactRead(env))
      [] provider = "puzzle" ->
            IF PuzzleReadStart(filters, env).ok
            THEN RunningTask(provider, "getBalance", filters, "select-agents",
                             [selectedAgents |-> <<>>])
            ELSE DoneTask(provider, "getBalance", filters, NoLocals,
                          PuzzleReadStart(filters, env))

\* buildTrackExpenseTraceId(agentId): the agent id, or unknown-agent, with
\* Date.now(); the random suffix is left out
buildTrackExpenseTraceId(agentId, clock) ==
    [agent |-> IF trim(agentId) = <<>> THEN "unknown-agent" ELSE trim(agentId),
     time  |-> clock]

\* The line logTrackExpenseFlow({traceId, stage, status, agentId, ...}) writes
TraceRecord(traceId, stage, status, agentId) ==
    [traceId |-> traceId, stage |-> stage, status |-> status, agentId |-> agentId]

\* The lines trackExpense of the relational provider has written when it
\* reaches its first statement or fails before it: none when the currency is
\* refused, else the line of stage start and, on failure, the line of the
\* catch block with the stage reached
PuzzleTrackStartTrace(input, e, clock) ==
    IF ~assertUsdCurrency(input.currency).ok THEN <<>>
    ELSE <<TraceRecord(buildTrackExpenseTraceId(input.agentId, clock),
                       "start", "ok", input.agentId)>>
         \o (IF ~getPuzzleDatabase(e).ok
             THEN <<TraceRecord(buildTrackExpenseTraceId(input.agentId, clock),
                                "connect-db", "error", input.agentId)>>
             ELSE IF ~DateParse(input.occurredAt).valid
             THEN <<TraceRecord(buildTrackExpenseTraceId(input.agentId, clock),
                                "validate-occurredAt", "error", input.agentId)>>
             ELSE <<>>)

\* The line a later stage of the call of task t adds, under the trace id of
\* the call's first line
Traced(call1, stage, status) ==
    Append(call1.loc.trace,
           TraceRecord(call1.loc.trace[1].traceId, stage, status,
                       call1.input.agentId))

\* A start that sends the agent insert without looking at occurredAt
PuzzleTrackStartUnvalidated(input, e) ==
    IF ~assertUsdCurrency(input.currency).ok
    THEN assertUsdCurrency(input.currency)
    ELSE IF ~getPuzzleDatabase(e).ok THEN getPuzzleDatabase(e)
    ELSE Ok(TRUE)

\* What trackExpense of the relational provider does before its first
\* statement: currency, connect-db, validate-occurredAt
PuzzleTrackStart(input, e) ==
    IF ~assertUsdCurrency(input.currency).ok
    THEN assertUsdCurrency(input.currency)
    ELSE IF ~getPuzzleDatabase(e).ok THEN getPuzzleDatabase(e)
    ELSE IF ~DateParse(input.occurredAt).valid THEN LedgerError("INVALID_DATE")
    ELSE Ok(TRUE)

\* provider.trackExpense(input) up to its first await
StartTrackExpense(provider, input) ==
    CASE provider = "mock" ->
            DoneTask(provider, "trackExpense", input,
                     [wasAgentCreated |-> FALSE,
                      inserted |-> MockTrackExpense(mockExpenses, input).result.ok],
                     MockTrackExpense(mockExpenses, input).result)
      [] provider = "manufact" ->
            DoneTask(provider, "trackExpense", input, NoLocals,
                     ManufactTrackExpense(env))
      [] provider = "puzzle" ->
            IF PuzzleTrackStart(input, env).ok
            THEN RunningTask(provider, "trackExpense", input, "upsert-agent",
                             [wasAgentCreated |-> FALSE, inserted |-> FALSE,
                              agentName |-> <<>>,
                              trace |-> PuzzleTrackStartTrace(input, env, now)])
            ELSE DoneTask(provider, "trackExpense", input,
                          [wasAgentCreated |-> FALSE, inserted |-> FALSE,
                           trace |-> PuzzleTrackStartTrace(input, env, now)],
                          PuzzleTrackStart(input, env))

Finish(t, loc, result) ==
    [task EXCEPT ![t] = DoneTask(@.provider, @.op, @.input, loc, result)]

Goto(t, pc, loc) == [task EXCEPT ![t] = [@ EXCEPT !.pc = pc, !.loc = loc]]

\* What one of the four statements of getExpenses may return
PgStatementValues(q, filters) ==
    CASE q = "expenses" -> {PgSelectExpenses(agents, expenses, filters)}
      [] q = "totals" -> {PgSelectTotals(expenses, filters)}
      [] q = "byAgent" ->
            {SortBy(order, byTotalDesc) :
                order \in RowOrders(PgSelectByAgent(agents, expenses, filters))}
      [] q = "byCategory" ->
            {SortBy(order, byTotalDesc) :
                order \in RowOrders(PgSelectByCategory(expenses, filters))}

\* The object PuzzleLedgerProvider.getExpenses returns
PuzzleExpensesResult(filters, loc) ==
    Ok([currency |-> filters.currency,
        from     |-> filters.from,
        to       |-> filters.to,
        expenses |-> loc.expenses,
        summary  |-> [totalExpenseMinor |-> toInt(loc.totals.totalExpenseMinor),
                      expenseCount      |-> toInt(loc.totals.expenseCount),
                      byAgent           |-> loc.byAgent,
                      byCategory        |-> loc.byCategory]])

\* One of the four statements of Promise.all runs; after the last of them
\* the call returns, and with the first that fails the call is rejected
PgExpensesStatement(t) ==
    /\ task[t].pc = "statements"
    /\ \E q \in task[t].loc.pending, fails \in StatementFailures(env) :
         \E value \in PgStatementValues(q, task[t].input) :
            LET loc == [task[t].loc EXCEPT ![q] = value, !.pending = @ \ {q}]
            IN  task' = IF fails
                        THEN Finish(t, NoLocals, toPuzzleDatabaseError(DatabaseError))
                        ELSE IF loc.pending = {}
                        THEN Finish(t, loc, PuzzleExpensesResult(task[t].input, loc))
                        ELSE Goto(t, "statements", loc)
    /\ UNCHANGED <<now, env, stores, nfInput, nfResult, call>>

\* The first statement of getBalance
PgBalanceSelectAgents(t) ==
    /\ task[t].pc = "select-agents"
    /\ \E fails \in StatementFailures(env) :
          task' = IF fails
                  THEN Finish(t, NoLocals, toPuzzleDatabaseError(DatabaseError))
                  ELSE Goto(t, "select-spent",
                            [selectedAgents |->
                                PgSelectAgents(agents, task[t].input)])
    /\ UNCHANGED <<now, env, stores, nfInput, nfResult, call>>

\* The object PuzzleLedgerProvider.getBalance returns
PuzzleBalanceResult(filters, balances, clock) ==
    Ok([currency |-> filters.currency,
        asOf     |-> toISOString(clock),
        balances |-> balances,
        totals   |-> BalanceTotals(balances)])

\* The second statement of getBalance, after which the call returns
PgBalanceSelectSpent(t) ==
    /\ task[t].pc = "select-spent"
    /\ \E fails \in StatementFailures(env) :
          task' = IF fails
                  THEN Finish(t, NoLocals, toPuzzleDatabaseError(DatabaseError))
                  ELSE Finish(t, task[t].loc,
                              PuzzleBalanceResult(task[t].input,
                                  PgBalances(task[t].loc.selectedAgents, expenses,
                                             task[t].input), now))
    /\ UNCHANGED <<now, env, stores, nfInput, nfResult, call>>

\* Stage upsert-agent of trackExpense: the insert-or-ignore of the agent row
PgUpsertAgent(agentsT, input) ==
    PgInsertAgentOnConflictDoNothing(agentsT,
        AgentRow(input.agentId, input.agentId, 0))

PgTrackUpsertAgent(t) ==
    /\ task[t].pc = "upsert-agent"
    /\ \E fails \in StatementFailures(env) :
       LET r == PgUpsertAgent(agents, task[t].input)
       IN  IF ~fails /\ r.ok
           THEN /\ agents' = r.table
                /\ task' = Goto(t, "load-agent",
                                [task[t].loc EXCEPT
                                    !.wasAgentCreated = Len(r.returning) > 0,
                                    !.trace = Traced(task[t], "agent-upserted", "ok")])
           ELSE /\ agents' = agents
                /\ task' = Finish(t, [task[t].loc EXCEPT
                                         !.trace = Traced(task[t], "upsert-agent",
                                                          "error")],
                                  toPuzzleDatabaseError(DatabaseError))
    /\ UNCHANGED <<now, env, mockExpenses, expenses, nfInput, nfResult, call>>

\* Stage load-agent: the agent row is read back
PgTrackLoadAgent(t) ==
    /\ task[t].pc = "load-agent"
    /\ \E fails \in StatementFailures(env) :
       LET found == PgSelectAgentById(agents, task[t].input.agentId)
       IN  task' = IF fails
                   THEN Finish(t, [task[t].loc EXCEPT
                                      !.trace = Traced(task[t], "load-agent", "error")],
                               toPuzzleDatabaseError(DatabaseError))
                   ELSE IF found = <<>>
                   THEN Finish(t, [task[t].loc EXCEPT
                                      !.trace = Traced(task[t], "load-agent", "error")],
                               LedgerError("PROVIDER_UNAVAILABLE"))
                   ELSE Goto(t, "insert-expense",
                             [task[t].loc EXCEPT !.agentName = found[1].name])
    /\ UNCHANGED <<now, env, stores, nfInput, nfResult, call>>

\* Values that store the time of the insert in place of occurredAt
PuzzleExpenseValuesAtInsertTime(input) ==
    [agentId     |-> input.agentId,
     category    |-> input.category,
     amountMinor |-> input.amountMinor,
     currency    |-> input.currency,
     occurredAt  |-> now]

\* The values of the expense insert
PuzzleExpenseValues(input) ==
    [agentId     |-> input.agentId,
     category    |-> input.category,
     amountMinor |-> input.amountMinor,
     currency    |-> input.currency,
     occurredAt  |-> DateParse(input.occurredAt)]

\* The object PuzzleLedgerProvider.trackExpense returns
PuzzleTrackResult(input, inserted, agentName) ==
    Ok([currency |-> input.currency,
        expense  |-> [id          |-> inserted.id,
                      agentId     |-> inserted.agentId,
                      agentName   |-> agentName,
                      category    |-> inserted.category,
                      amountMinor |-> toInt(inserted.amountMinor),
                      occurredAt  |-> toIsoString(inserted.occurredAt)]])

\* Stage insert-expense, after which the call returns
PgTrackInsertExpense(t) ==
    /\ task[t].pc = "insert-expense"
    /\ \E fails \in StatementFailures(env) :
       LET r == PgInsertExpense(agents, expenses,
                                PuzzleExpenseValues(task[t].input))
       IN  IF ~fails /\ r.ok
           THEN /\ expenses' = r.table
                /\ task' = Finish(t, [task[t].loc EXCEPT
                                         !.inserted = TRUE,
                                         !.trace = Traced(task[t], "expense-inserted",
                                                          "ok")],
                                  PuzzleTrackResult(task[t].input, r.returning[1],
                                                    task[t].loc.agentName))
           ELSE /\ expenses' = expenses
                /\ task' = Finish(t, [task[t].loc EXCEPT
                                         !.trace = Traced(task[t], "insert-expense",
                                                          "error")],
                                  toPuzzleDatabaseError(DatabaseError))
    /\ UNCHANGED <<now, env, mockExpenses, agents, nfInput, nfResult, call>>

(***************************************************************************)
(* Callers of the providers                                                *)
(***************************************************************************)
\* How many recordings the bounded model lets the callers make
MaxTracks == 2

AGENT_NOVA == <<"a", "g", "e", "n", "t", "-", "n", "o", "v", "a">>

EUR == <<"E", "U", "R">>

\* The last millisecond of 2026-02-20, and a text that is no time stamp
OccurredAtInputs == {Iso(IsoDate(2026, 2, 20), MS_END_OF_DAY), Iso(<<"x">>, 0)}

TrackInputs ==
    [agentId     : {AGENT_ATLAS, AGENT_NOVA},
     category    : {SOFTWARE},
     amountMinor : {0, 1250},
     currency    : {USD, EUR},
     occurredAt  : OccurredAtInputs]

ReadFilters ==
    [agentId  : {Undefined, AGENT_ATLAS, AGENT_NOVA},
     from     : {IsoDate(2026, 2, 1)},
     to       : {IsoDate(2026, 2, 20)},
     currency : {USD, EUR}]

\* The recordings stored or under way
TracksStarted ==
    (Len(mockExpenses) - Len(SEED_MOCK_EXPENSES)) + Len(expenses)
    + Cardinality({t \in Tasks : /\ task[t].pc \notin {"idle", "done"}
                                 /\ task[t].op = "trackExpense"})

\* Task t1 stands for any caller; t2 for a second caller that records, on
\* either provider, while t1 runs
Readers == {"t1"}

Recorders == {"mock", "puzzle"}

ProvidersOf(t) == IF t \in Readers THEN {"mock", "puzzle"} ELSE {"puzzle"}

CallGetExpenses(t) ==
    /\ t \in Readers
    /\ task[t].pc = "idle"
    /\ \E provider \in ProvidersOf(t), filters \in ReadFilters :
          /\ task' = [task EXCEPT ![t] = StartGetExpenses(provider, filters)]
          /\ mockExpenses' = MockStoreAfterRead(provider, mockExpenses)
    /\ UNCHANGED <<now, env, agents, expenses, nfInput, nfResult, call>>

CallGetBalance(t) ==
    /\ t \in Readers
    /\ task[t].pc = "idle"
    /\ \E provider \in ProvidersOf(t), filters \in ReadFilters :
          /\ task' = [task EXCEPT ![t] = StartGetBalance(provider, filters)]
          /\ mockExpenses' = MockStoreAfterRead(provider, mockExpenses)
    /\ UNCHANGED <<now, env, agents, expenses, nfInput, nfResult, call>>

CallTrackExpense(t) ==
    /\ task[t].pc = "idle"
    /\ TracksStarted < MaxTracks
    /\ \E provider \in Recorders, input \in TrackInputs :
          /\ task' = [task EXCEPT ![t] = StartTrackExpense(provider, input)]
          /\ mockExpenses' = IF provider = "mock"
                             THEN MockTrackExpense(mockExpenses, input).store
                             ELSE mockExpenses
    /\ UNCHANGED <<now, env, agents, expenses, nfInput, nfResult, call>>

\* The caller takes the result
TaskReturn(t) ==
    /\ task[t].pc = "done"
    /\ task' = [task EXCEPT ![t] = IdleTask]
    /\ UNCHANGED <<now, env, stores, nfInput, nfResult, call>>

Init ==
    /\ now = DateOf(DaysFromCivil(2026, 3, 5), 43200000)
    /\ env = ConfiguredEnv
    /\ mockExpenses = SEED_MOCK_EXPENSES
    /\ agents = SEED_AGENTS
    /\ expenses = <<>>
    /\ task = [t \in Tasks |-> IdleTask]
    /\ nfInput = NoInput
    /\ nfResult = NoResult
    /\ call = IdleCall

Next ==
    \E t \in Tasks :
        \/ CallGetExpenses(t)
        \/ CallGetBalance(t)
        \/ CallTrackExpense(t)
        \/ PgExpensesStatement(t)
        \/ PgBalanceSelectAgents(t)
        \/ PgBalanceSelectSpent(t)
        \/ PgTrackUpsertAgent(t)
        \/ PgTrackLoadAgent(t)
        \/ PgTrackInsertExpense(t)
        \/ TaskReturn(t)

Spec == Init /\ [][Next]_vars

(***************************************************************************)
(* The dispatch layer: provider selection (unnamed/part_004) and the three *)
(* tool handlers (index.ts 142-333).  The handlers' log lines are left     *)
(* out.  The server is modelled handling one tool call at a time; the two  *)
(* provider calls of a read tool run concurrently as tasks t1 and t2.      *)
(***************************************************************************)
MOCK == <<"m", "o", "c", "k">>

PUZZLE == <<"p", "u", "z", "z", "l", "e">>

MANUFACT == <<"m", "a", "n", "u", "f", "a", "c", "t">>

\* The selector the switch of getLedgerProvider looks at
selectedProvider(e) ==
    IF e.LEDGER_PROVIDER = Undefined THEN MOCK
    ELSE trim(toLowerCase(e.LEDGER_PROVIDER))

\* A selection that falls back to the in-memory provider
getLedgerProviderOrMock(e) ==
    CASE selectedProvider(e) = PUZZLE -> Ok("puzzle")
      [] selectedProvider(e) = MANUFACT -> Ok("manufact")
      [] OTHER -> Ok("mock")

\* getLedgerProvider(): the provider selected, or the LedgerError thrown
getLedgerProvider(e) ==
    CASE selectedProvider(e) = MOCK -> Ok("mock")
      [] selectedProvider(e) = PUZZLE -> Ok("puzzle")
      [] selectedProvider(e) = MANUFACT -> Ok("manufact")
      [] OTHER -> LedgerError("INVALID_PROVIDER")

\* err.message: the detail an error was created with, and for the errors the
\* model creates without detail the name of their kind
MessageOf(err) == IF "message" \in DOMAIN err THEN err.message ELSE err.code

\* A handler without a catch: what was thrown leaves it as it is
toRawError(err) == err

\* toErrorResponse(err): error(JSON.stringify({code, message}))
toErrorResponse(err) ==
    [isError |-> TRUE,
     code    |-> IF err.ledger THEN err.code ELSE "INTERNAL_ERROR",
     message |-> MessageOf(err)]

\* An occurredAt left out of the input
UndefinedTime == Iso(Undefined, 0)

\* normalizeOccurredAt(occurredAt): the time stamps of the model carry no
\* surrounding blanks, so trim() leaves them as they are
normalizeOccurredAt(occurredAt, clock) ==
    IF occurredAt = UndefinedTime THEN Ok(toISOString(clock))
    ELSE IF ~DateParse(occurredAt).valid THEN LedgerError("INVALID_DATE")
    ELSE Ok(toISOString(DateParse(occurredAt)))

\* normalizeTrackExpenseInput(input); vendor and description are checked and
\* then, like in the rows of the model, not carried further
normalizeTrackExpenseInput(input, clock) ==
    IF trim(input.agentId) = <<>> THEN LedgerError("INVALID_AGENT")
    ELSE IF trim(input.category) = <<>> THEN LedgerError("INVALID_CATEGORY")
    ELSE IF trim(input.vendor) = <<>> THEN LedgerError("INVALID_VENDOR")
    ELSE IF trim(input.description) = <<>>
    THEN LedgerError("INVALID_DESCRIPTION")
    ELSE IF ~normalizeOccurredAt(input.occurredAt, clock).ok
    THEN normalizeOccurredAt(input.occurredAt, clock)
    ELSE Ok([agentId     |-> trim(input.agentId),
             category    |-> trim(input.category),
             amountMinor |-> input.amountMinor,
             currency    |-> normalizeCurrency(input.currency),
             occurredAt  |-> normalizeOccurredAt(input.occurredAt, clock).value])

\* buildTrackExpenseLogFilters(input): input.occurredAt.slice(0, 10) for both
\* dates
buildTrackExpenseLogFilters(input) ==
    LET text == input.occurredAt.date
        day  == SubSeq(text, 1, IF Len(text) < 10 THEN Len(text) ELSE 10)
    IN  [agentId  |-> input.agentId,
         from     |-> day,
         to       |-> day,
         currency |-> input.currency]

\* buildWidgetProps(activeTool, provider, filters, expensesResult, balanceResult)
buildWidgetProps(activeTool, provider, filters, expensesResult, balanceResult) ==
    [activeTool     |-> activeTool,
     provider       |-> provider,
     filters        |-> filters,
     expenses       |-> expensesResult.expenses,
     expenseSummary |-> expensesResult.summary,
     balances       |-> balanceResult.balances,
     balanceTotals  |-> balanceResult.totals,
     asOf           |-> balanceResult.asOf]

\* The settings of process.env tried
Env(provider, key, url, database) ==
    [LEDGER_PROVIDER     |-> provider,
     MANUFACT_API_KEY    |-> key,
     MANUFACT_BASE_URL   |-> url,
     PUZZLE_DATABASE_URL |-> database]

Envs ==
    {Env(Undefined, Undefined, Undefined, Undefined),
     Env(<<" ", "M", "o", "c", "k", " ">>, Undefined, Undefined, Undefined),
     Env(PUZZLE, Undefined, Undefined, FLAKY_URL),
     Env(PUZZLE, Undefined, Undefined, <<" ">>),
     Env(toUpperCase(MANUFACT), <<"k">>, <<"u">>, Undefined),
     Env(MANUFACT, Undefined, <<"u">>, Undefined),
     Env(MANUFACT, <<"k">>, <<>>, Undefined),
     Env(<<>>, <<"k">>, <<"u">>, <<"p">>),
     Env(<<"s", "q", "l", "i", "t", "e">>, <<"k">>, <<"u">>, <<"p">>)}

\* " eur "
PADDED_EUR == <<" ", "e", "u", "r", " ">>

\* What the read tools are called with (sharedInputSchema: optional strings)
ToolReadInputs ==
    [agentId  : {Undefined, <<" ">> \o AGENT_ATLAS},
     from     : {Undefined, IsoDate(2026, 2, 10), IsoDate(2027, 1, 1),
                 IsoDate(2026, 2, 30), IsoDate(2026, 13, 1), <<"x">>},
     to       : {Undefined, IsoDate(2026, 2, 20)},
     currency : {Undefined, PADDED_EUR}]

\* What trackExpense is called with (trackExpenseInputSchema: amountMinor a
\* positive integer, currency and occurredAt optional)
ToolTrackInputs ==
    [agentId     : {<<" ">> \o AGENT_ATLAS, AGENT_NOVA},
     category    : {SOFTWARE},
     vendor      : {<<"v">>, <<" ">>},
     description : {<<"d">>},
     amountMinor : {1250},
     currency    : {Undefined, PADDED_EUR},
     occurredAt  : {UndefinedTime} \cup OccurredAtInputs]

\* How many recordings the bounded model lets the tool calls make
MaxToolTracks == 1

ReadTools == {"getExpenses", "getBalance"}

AllIdle == \A t \in Tasks : task[t].pc = "idle"

ReturnedCall(tool, input, filtersForLog, response) ==
    [pc |-> "returned", tool |-> tool, input |-> input, provider |-> "none",
     filtersForLog |-> filtersForLog, response |-> response]

AwaitingCall(tool, input, filtersForLog, provider) ==
    [pc |-> "awaiting", tool |-> tool, input |-> input, provider |-> provider,
     filtersForLog |-> filtersForLog, response |-> [isError |-> FALSE]]

\* The handler of getExpenses or of getBalance, up to its await of
\* Promise.all([provider.getExpenses(filters), provider.getBalance(filters)])
ToolRead(tool) ==
    /\ call.pc = "idle"
    /\ AllIdle
    /\ \E input \in ToolReadInputs :
         \E filtersForLog \in {safeNormalizeFilters(input, now)},
            normalized \in {normalizeFilters(input, now)},
            selected \in {getLedgerProvider(env)} :
             /\ nfInput' = input
             /\ nfResult' = normalized
             /\ IF ~normalized.ok
                THEN /\ call' = ReturnedCall(tool, input, filtersForLog,
                                             toErrorResponse(normalized))
                     /\ UNCHANGED <<task, mockExpenses>>
                ELSE IF ~selected.ok
                THEN /\ call' = ReturnedCall(tool, input, normalized.value,
                                             toErrorResponse(selected))
                     /\ UNCHANGED <<task, mockExpenses>>
                ELSE \E filters \in {normalized.value}, provider \in {selected.value} :
                     /\ call' = AwaitingCall(tool, input, filters, provider)
                     /\ task' = [task EXCEPT
                                   !["t1"] = StartGetExpenses(provider, filters),
                                   !["t2"] = StartGetBalance(provider, filters)]
                     /\ mockExpenses' = MockStoreAfterRead(provider, mockExpenses)
    /\ UNCHANGED <<now, env, agents, expenses>>

\* The filters safeNormalizeFilters is given by the handler of trackExpense
TrackLogFilters(input) ==
    [agentId |-> input.agentId, from |-> Undefined, to |-> Undefined,
     currency |-> input.currency]

\* The handler of trackExpense, up to its await of provider.trackExpense
ToolTrack ==
    /\ call.pc = "idle"
    /\ AllIdle
    /\ TracksStarted < MaxToolTracks
    /\ \E input \in ToolTrackInputs :
         \E normalized \in {normalizeTrackExpenseInput(input, now)},
            selected \in {getLedgerProvider(env)},
            logFilters \in {TrackLogFilters(input)} :
           \E filtersForLog \in {safeNormalizeFilters(logFilters, now)} :
             /\ nfInput' = logFilters
             /\ nfResult' = normalizeFilters(logFilters, now)
             /\ IF ~normalized.ok
                THEN /\ call' = ReturnedCall("trackExpense", input, filtersForLog,
                                             toErrorResponse(normalized))
                     /\ UNCHANGED <<task, mockExpenses>>
                ELSE IF ~selected.ok
                THEN /\ call' = ReturnedCall("trackExpense", input, filtersForLog,
                                             toErrorResponse(selected))
                     /\ UNCHANGED <<task, mockExpenses>>
                ELSE \E normalizedInput \in {normalized.value},
                        provider \in {selected.value} :
                     /\ call' = AwaitingCall("trackExpense", input, filtersForLog,
                                             provider)
                     /\ task' = [task EXCEPT !["t1"] =
                                   StartTrackExpense(provider, normalizedInput)]
                     /\ mockExpenses' =
                           IF provider = "mock"
                           THEN MockTrackExpense(mockExpenses, normalizedInput).store
                           ELSE mockExpenses
    /\ UNCHANGED <<now, env, agents, expenses>>

\* The provider calls the handler under way has made
Started == {t \in Tasks : task[t].pc # "idle"}

Rejected == {t \in Started : task[t].pc = "done" /\ ~task[t].result.ok}

\* What the handler returns when every provider call has succeeded
ToolOutput ==
    IF call.tool = "trackExpense"
    THEN [isError |-> FALSE, output |-> task["t1"].result.value]
    ELSE [isError |-> FALSE,
          output  |-> IF call.tool = "getExpenses" THEN task["t1"].result.value
                      ELSE task["t2"].result.value,
          props   |-> buildWidgetProps(call.tool, call.provider, nfResult.value,
                                       task["t1"].result.value,
                                       task["t2"].result.value)]

\* The await ends: with the first rejection, or with all results
ToolSettle ==
    /\ call.pc = "awaiting"
    /\ \/ \E t \in Rejected :
            call' = [call EXCEPT !.pc = "returned",
                                 !.response = toErrorResponse(task[t].result)]
       \/ /\ \A t \in Started : task[t].pc = "done" /\ task[t].result.ok
          /\ call' = [call EXCEPT
                         !.pc = "returned",
                         !.filtersForLog =
                             IF call.tool = "trackExpense"
                             THEN buildTrackExpenseLogFilters(task["t1"].input)
                             ELSE @,
                         !.response = ToolOutput]
    /\ UNCHANGED <<now, env, stores, task, nfInput, nfResult>>

\* The response is delivered; a provider call a rejection left behind has
\* run to its end
ToolReturn ==
    /\ call.pc = "returned"
    /\ \A t \in Tasks : task[t].pc \in {"idle", "done"}
    /\ call' = IdleCall
    /\ task' = [t \in Tasks |-> IdleTask]
    /\ nfInput' = NoInput
    /\ nfResult' = NoResult
    /\ UNCHANGED <<now, env, stores>>

InitTool ==
    /\ now = DateOf(DaysFromCivil(2026, 3, 5), 43200000)
    /\ env \in Envs
    /\ mockExpenses = SEED_MOCK_EXPENSES
    /\ agents = SEED_AGENTS
    /\ expenses = <<>>
    /\ task = [t \in Tasks |-> IdleTask]
    /\ nfInput = NoInput
    /\ nfResult = NoResult
    /\ call = IdleCall

NextTool ==
    \/ \E tool \in ReadTools : ToolRead(tool)
    \/ ToolTrack
    \/ ToolSettle
    \/ ToolReturn
    \/ \E t \in Tasks :
        \/ PgExpensesStatement(t)
        \/ PgBalanceSelectAgents(t)
        \/ PgBalanceSelectSpent(t)
        \/ PgTrackUpsertAgent(t)
        \/ PgTrackLoadAgent(t)
        \/ PgTrackInsertExpense(t)

SpecTool == InitTool /\ [][NextTool]_vars

(***************************************************************************)
(* The dispatch layer while a second request records.  The server awaits   *)
(* each provider call, so the statements of another trackExpense request   *)
(* can run while a read tool call waits for its own.  The other request    *)
(* records for agent-atlas, whose agent row exists: its upsert-agent and   *)
(* load-agent stages change nothing, and its insert-expense statement, or  *)
(* for the in-memory provider its whole synchronous run, is one step here. *)
(***************************************************************************)
SharedEnvs ==
    {Env(Undefined, Undefined, Undefined, Undefined),
     Env(PUZZLE, Undefined, Undefined, RELIABLE_URL)}

OtherTrackInputs ==
    {[agentId |-> AGENT_ATLAS, category |-> SOFTWARE, amountMinor |-> 1250,
      currency |-> USD, occurredAt |-> Iso(IsoDate(2026, 2, 20), MS_END_OF_DAY)]}

\* The other request stores its expense
OtherRequestRecords ==
    /\ TracksStarted < MaxToolTracks
    /\ \E input \in OtherTrackInputs, provider \in {getLedgerProvider(env).value} :
         /\ mockExpenses' =
               IF provider = "mock"
               THEN MockTrackExpense(mockExpenses, input).store
               ELSE mockExpenses
         /\ expenses' =
               IF provider = "puzzle"
               THEN PgInsertExpense(agents, expenses,
                                    PuzzleExpenseValues(input)).table
               ELSE expenses
    /\ UNCHANGED <<now, env, agents, task, nfInput, nfResult, call>>

InitShared ==
    /\ now = DateOf(DaysFromCivil(2026, 3, 5), 43200000)
    /\ env \in SharedEnvs
    /\ mockExpenses = SEED_MOCK_EXPENSES
    /\ agents = SEED_AGENTS
    /\ expenses = <<>>
    /\ task = [t \in Tasks |-> IdleTask]
    /\ nfInput = NoInput
    /\ nfResult = NoResult
    /\ call = IdleCall

NextShared ==
    \/ NextTool
    \/ OtherRequestRecords

SpecShared == InitShared /\ [][NextShared]_vars

(***************************************************************************)
(* One caller using the provider the process is configured with: it makes  *)
(* one call at a time, and may repeat a read with the same filters before  *)
(* it does anything else, so that no recording runs between or during the  *)
(* two reads.                                                              *)
(***************************************************************************)
SeqEnvs ==
    {Env(Undefined, Undefined, Undefined, Undefined),
     Env(PUZZLE, Undefined, Undefined, RELIABLE_URL),
     Env(PUZZLE, Undefined, Undefined, <<" ">>),
     Env(PUZZLE, Undefined, Undefined, DOWN_URL)}

\* The first and the last millisecond of the window 2026-02-10..2026-02-20,
\* and the millisecond after it, which opens the window 2026-02-21..2026-02-21
SeqTimes ==
    {Iso(IsoDate(2026, 2, 10), 0),
     Iso(IsoDate(2026, 2, 20), MS_END_OF_DAY),
     Iso(IsoDate(2026, 2, 21), 0)}

SeqTrack(agentId, amountMinor, currency, occurredAt) ==
    [agentId |-> agentId, category |-> SOFTWARE, amountMinor |-> amountMinor,
     currency |-> currency, occurredAt |-> occurredAt]

\* Recordings of a roster agent and of an agent outside the roster, three
\* recordings with one field wrong (the amount, the currency, the time
\* stamp), and one under the category SOFTWARE in capitals
SeqTrackInputs ==
    {SeqTrack(agentId, 1250, USD, occurredAt) :
        agentId \in {AGENT_ATLAS, AGENT_NOVA}, occurredAt \in SeqTimes}
    \cup {SeqTrack(AGENT_ATLAS, 0, USD, Iso(IsoDate(2026, 2, 10), 0)),
          SeqTrack(AGENT_ATLAS, 1250, EUR, Iso(IsoDate(2026, 2, 10), 0)),
          SeqTrack(AGENT_ATLAS, 1250, USD, Iso(<<"x">>, 0)),
          [SeqTrack(AGENT_ATLAS, 1250, USD, Iso(IsoDate(2026, 2, 10), 0))
              EXCEPT !.category = toUpperCase(SOFTWARE)]}

SeqFilter(agentId, from, to, currency) ==
    [agentId |-> agentId, from |-> from, to |-> to, currency |-> currency]

SeqFilters ==
    {SeqFilter(agentId, IsoDate(2026, 2, 10), IsoDate(2026, 2, 20), USD) :
        agentId \in {Undefined, AGENT_ATLAS, AGENT_NOVA}}
    \cup {SeqFilter(agentId, IsoDate(2026, 2, 21), IsoDate(2026, 2, 21), USD) :
            agentId \in {Undefined, AGENT_ATLAS, AGENT_NOVA}}
    \cup {SeqFilter(Undefined, IsoDate(2026, 2, 10), IsoDate(2026, 2, 20), EUR)}

\* provider.getExpenses(filters)
SeqGetExpenses ==
    /\ AllIdle
    /\ \E provider \in {getLedgerProvider(env).value}, filters \in SeqFilters :
          /\ task' = [task EXCEPT !["t1"] = StartGetExpenses(provider, filters)]
          /\ mockExpenses' = MockStoreAfterRead(provider, mockExpenses)
    /\ UNCHANGED <<now, env, agents, expenses, nfInput, nfResult, call>>

\* provider.getBalance(filters)
SeqGetBalance ==
    /\ AllIdle
    /\ \E provider \in {getLedgerProvider(env).value}, filters \in SeqFilters :
          /\ task' = [task EXCEPT !["t1"] = StartGetBalance(provider, filters)]
          /\ mockExpenses' = MockStoreAfterRead(provider, mockExpenses)
    /\ UNCHANGED <<now, env, agents, expenses, nfInput, nfResult, call>>

\* The read that has returned is made once more, with the same filters
SeqReadAgain ==
    /\ task["t1"].pc = "done"
    /\ task["t1"].op \in {"getExpenses", "getBalance"}
    /\ task["t2"].pc = "idle"
    /\ task' = [task EXCEPT !["t2"] =
                  IF task["t1"].op = "getExpenses"
                  THEN StartGetExpenses(task["t1"].provider, task["t1"].input)
                  ELSE StartGetBalance(task["t1"].provider, task["t1"].input)]
    /\ mockExpenses' = MockStoreAfterRead(task["t1"].provider, mockExpenses)
    /\ UNCHANGED <<now, env, agents, expenses, nfInput, nfResult, call>>

\* provider.trackExpense(input)
SeqTrackExpense ==
    /\ AllIdle
    /\ TracksStarted < MaxTracks
    /\ \E provider \in {getLedgerProvider(env).value}, input \in SeqTrackInputs :
          /\ task' = [task EXCEPT !["t1"] = StartTrackExpense(provider, input)]
          /\ mockExpenses' = IF provider = "mock"
                             THEN MockTrackExpense(mockExpenses, input).store
                             ELSE mockExpenses
    /\ UNCHANGED <<now, env, agents, expenses, nfInput, nfResult, call>>

\* The caller takes the results of the calls it made
SeqReturn ==
    /\ ~AllIdle
    /\ \A t \in Tasks : task[t].pc \in {"idle", "done"}
    /\ task' = [t \in Tasks |-> IdleTask]
    /\ UNCHANGED <<now, env, stores, nfInput, nfResult, call>>

InitSeq ==
    /\ now = DateOf(DaysFromCivil(2026, 3, 5), 43200000)
    /\ env \in SeqEnvs
    /\ mockExpenses = SEED_MOCK_EXPENSES
    /\ agents = SEED_AGENTS
    /\ expenses = <<>>
    /\ task = [t \in Tasks |-> IdleTask]
    /\ nfInput = NoInput
    /\ nfResult = NoResult
    /\ call = IdleCall

NextSeq ==
    \/ SeqGetExpenses
    \/ SeqGetBalance
    \/ SeqReadAgain
    \/ SeqTrackExpense
    \/ SeqReturn
    \/ \E t \in Tasks :
        \/ PgExpensesStatement(t)
        \/ PgBalanceSelectAgents(t)
        \/ PgBalanceSelectSpent(t)
        \/ PgTrackUpsertAgent(t)
        \/ PgTrackLoadAgent(t)
        \/ PgTrackInsertExpense(t)

SpecSeq == InitSeq /\ [][NextSeq]_vars

(***************************************************************************)
(* Properties of the provider calls, checked under Spec                    *)
(***************************************************************************)
IsDone(t, provider, op) ==
    task[t].pc = "done" /\ task[t].provider = provider /\ task[t].op = op

IsRunning(t, provider, op) ==
    /\ task[t].pc \notin {"idle", "done"}
    /\ task[t].provider = provider
    /\ task[t].op = op

\* An input every check of trackExpense and every constraint of the expenses
\* table accepts
TrackIsValid(input) ==
    /\ input.currency = USD
    /\ input.amountMinor > 0
    /\ DateParse(input.occurredAt).valid

AgentRowsOf(id) == {i \in DOMAIN agents : agents[i].id = id}

SeedAgentIds == {SEED_AGENTS[i].id : i \in DOMAIN SEED_AGENTS}

\* Every valid trackExpense call of the relational provider that has returned
\* succeeded, and its agent has one row: for an agent the call or a concurrent
\* call created, the row (agentId, agentId, 0, USD)
TrackReturnedWell ==
    \A t \in Tasks :
        (IsDone(t, "puzzle", "trackExpense") /\ TrackIsValid(task[t].input)) =>
            /\ task[t].result.ok
            /\ task[t].loc.inserted
            /\ Cardinality(AgentRowsOf(task[t].input.agentId)) = 1
            /\ task[t].input.agentId \notin SeedAgentIds =>
                  \A i \in AgentRowsOf(task[t].input.agentId) :
                      agents[i] = AgentRow(task[t].input.agentId,
                                           task[t].input.agentId, 0)

\* A step of a valid trackExpense call of the relational provider adds the
\* agent row exactly when the agent has none, and adds one expense row, of
\* the call's agent, exactly when the call returns
TrackStepAddsRows ==
    \A t \in Tasks :
        (/\ IsRunning(t, "puzzle", "trackExpense")
         /\ TrackIsValid(task[t].input)
         /\ task'[t] # task[t]) =>
            /\ agents' = IF task[t].pc = "upsert-agent"
                            /\ AgentRowsOf(task[t].input.agentId) = {}
                         THEN Append(agents, AgentRow(task[t].input.agentId,
                                                      task[t].input.agentId, 0))
                         ELSE agents
            /\ IF task'[t].pc = "done"
               THEN /\ Len(expenses') = Len(expenses) + 1
                    /\ SubSeq(expenses', 1, Len(expenses)) = expenses
                    /\ expenses'[Len(expenses')].agentId = task[t].input.agentId
               ELSE expenses' = expenses

\* C1: on the relational provider a valid trackExpense call for an agentId
\* without an agent row creates exactly one agent row (name = agentId,
\* startingMinor 0, USD) and exactly one expense row; however two such calls
\* for the same new agentId interleave, the id has one agent row, neither call
\* fails and each adds one expense row.
C1_OneAgentRowOneExpenseRow ==
    /\ [](\A id \in {AGENT_ATLAS, AGENT_NOVA} : Cardinality(AgentRowsOf(id)) <= 1)
    /\ []TrackReturnedWell
    /\ [][TrackStepAddsRows]_vars

\* Two calls for the same new agent overlap: the first has returned without
\* creating the agent, because the second, still before its insert of the
\* expense, created it
C1_Witness ==
    /\ IsDone("t1", "puzzle", "trackExpense")
    /\ task["t1"].input.agentId = AGENT_NOVA
    /\ task["t1"].result.ok
    /\ ~task["t1"].loc.wasAgentCreated
    /\ task["t2"].pc = "insert-expense"
    /\ task["t2"].input.agentId = AGENT_NOVA
    /\ task["t2"].loc.wasAgentCreated
    /\ Len(expenses) = 1

\* C2: summary.totalExpenseMinor of every getExpenses result of the in-memory
\* and of the relational provider equals the sum of amountMinor over the
\* expenses array of the same result, also when trackExpense calls of other
\* callers interleave.
C2_TotalIsSumOfReturned ==
    \A t \in Tasks :
        (/\ task[t].pc = "done"
         /\ task[t].op = "getExpenses"
         /\ task[t].provider \in {"mock", "puzzle"}
         /\ task[t].result.ok) =>
            task[t].result.value.summary.totalExpenseMinor
                = SumAmountMinor(task[t].result.value.expenses)

RECURSIVE SumOver(_, _)
SumOver(rows, field) ==
    IF rows = <<>> THEN 0 ELSE rows[1][field] + SumOver(Tail(rows), field)

BalanceFields == {"startingMinor", "spentMinor", "remainingMinor"}

\* C3: in every getBalance result of the in-memory and of the relational
\* provider each row has remainingMinor = startingMinor - spentMinor, each
\* totals field is the sum of the field over the returned rows, and
\* totals.remainingMinor = totals.startingMinor - totals.spentMinor.
C3_BalanceArithmetic ==
    \A t \in Tasks :
        (/\ task[t].pc = "done"
         /\ task[t].op = "getBalance"
         /\ task[t].provider \in {"mock", "puzzle"}
         /\ task[t].result.ok) =>
            LET r == task[t].result.value
            IN  /\ \A i \in DOMAIN r.balances :
                       r.balances[i].remainingMinor
                           = r.balances[i].startingMinor - r.balances[i].spentMinor
                /\ \A f \in BalanceFields : r.totals[f] = SumOver(r.balances, f)
                /\ r.totals.remainingMinor
                       = r.totals.startingMinor - r.totals.spentMinor

\* A balance of the relational provider over more than one agent, one of
\* which has spent
C3_Witness ==
    /\ IsDone("t1", "puzzle", "getBalance")
    /\ task["t1"].result.ok
    /\ Len(task["t1"].result.value.balances) > 1
    /\ task["t1"].result.value.totals.spentMinor > 0

\* C4: trackExpense with amountMinor <= 0 (and an input otherwise accepted:
\* USD, a time stamp, for the in-memory provider one of its agents) fails with INVALID_AMOUNT on the in-memory and on the relational provider
\* and persists nothing, the agent row included.
C4_NonPositiveAmountRejected ==
    \A t \in Tasks :
        (/\ task[t].pc = "done"
         /\ task[t].op = "trackExpense"
         /\ task[t].provider \in {"mock", "puzzle"}
         /\ task[t].input.amountMinor <= 0
         /\ task[t].input.currency = USD
         /\ (task[t].provider = "mock" => task[t].input.agentId = AGENT_ATLAS)
         /\ DateParse(task[t].input.occurredAt).valid) =>
            /\ task[t].result = LedgerError("INVALID_AMOUNT")
            /\ ~task[t].loc.inserted
            /\ ~task[t].loc.wasAgentCreated

(***************************************************************************)
(* Properties of the dispatch layer, checked under SpecTool                *)
(***************************************************************************)
\* The input of the tool call under way passes the handler's normaliser
InputIsValid ==
    IF call.tool \in ReadTools THEN normalizeFilters(call.input, now).ok
    ELSE normalizeTrackExpenseInput(call.input, now).ok

ErrorResponse(code) == [isError |-> TRUE, code |-> code, message |-> code]

SelectorIsSupported == selectedProvider(env) \in {MOCK, PUZZLE, MANUFACT}

StoresAreSeeds ==
    mockExpenses = SEED_MOCK_EXPENSES /\ agents = SEED_AGENTS /\ expenses = <<>>

\* C5: on each of the three backends, whatever its configuration, a tool call
\* (input otherwise valid) whose currency normalizes to something other than
\* USD fails with UNSUPPORTED_CURRENCY and changes no stored data.
C5_NonUsdRejected ==
    (/\ call.pc = "returned"
     /\ SelectorIsSupported
     /\ InputIsValid
     /\ normalizeCurrency(call.input.currency) # USD) =>
        /\ call.response = ErrorResponse("UNSUPPORTED_CURRENCY")
        /\ StoresAreSeeds

\* C6: with the manufact backend selected every tool call (input valid) fails
\* with PROVIDER_NOT_CONFIGURED when MANUFACT_API_KEY or MANUFACT_BASE_URL is
\* absent and with NOT_IMPLEMENTED when both are present, and never ends in
\* another way.
C6_StubFailsAsConfigured ==
    (/\ call.pc = "returned"
     /\ selectedProvider(env) = MANUFACT
     /\ InputIsValid) =>
        call.response =
            IF Truthy(env.MANUFACT_API_KEY) /\ Truthy(env.MANUFACT_BASE_URL)
            THEN ErrorResponse("NOT_IMPLEMENTED")
            ELSE ErrorResponse("PROVIDER_NOT_CONFIGURED")

\* C7: when LEDGER_PROVIDER, lower-cased and trimmed, is none of mock, puzzle
\* and manufact, every tool call with a valid input fails with
\* INVALID_PROVIDER, no provider operation is ever invoked and no data is
\* written; when LEDGER_PROVIDER is not set, the calls go to the mock provider.
C7_SelectorDecides ==
    /\ ~SelectorIsSupported =>
          /\ AllIdle
          /\ call.pc # "awaiting"
          /\ StoresAreSeeds
          /\ (call.pc = "returned" /\ InputIsValid) =>
                call.response = ErrorResponse("INVALID_PROVIDER")
    /\ env.LEDGER_PROVIDER = Undefined =>
          /\ \A t \in Tasks : task[t].pc # "idle" => task[t].provider = "mock"
          /\ (call.pc # "idle" /\ InputIsValid) =>
                /\ call.provider = "mock"
                /\ ~AllIdle

\* A trackExpense call with a valid input under LEDGER_PROVIDER=sqlite has
\* returned INVALID_PROVIDER
C7_Witness ==
    /\ ~SelectorIsSupported
    /\ Truthy(env.LEDGER_PROVIDER)
    /\ call.pc = "returned"
    /\ call.tool = "trackExpense"
    /\ InputIsValid
    /\ call.response = ErrorResponse("INVALID_PROVIDER")

\* The days that normalizeFilters resolves the window of its input to
ResolvedTo == ToDate(nfInput.to, now)

ResolvedFrom == FromDate(nfInput.from, ResolvedTo)

\* normalizeFilters has an input whose two dates pass its pattern test and
\* resolve to days
WindowResolves ==
    /\ nfInput # NoInput
    /\ ~Truthy(nfInput.from) \/ ISO_DATE_PATTERN(nfInput.from)
    /\ ~Truthy(nfInput.to) \/ ISO_DATE_PATTERN(nfInput.to)
    /\ ResolvedFrom.valid
    /\ ResolvedTo.valid

IsReadOp(op) == op \in {"getExpenses", "getBalance"}

\* C9: normalizeFilters fails with INVALID_DATE_RANGE for every input whose
\* resolved from is after its resolved to; the filters it returns have
\* from <= to; and no getExpenses or getBalance of a provider is invoked by a
\* tool handler with from > to.
C9_FromNotAfterTo ==
    /\ (WindowResolves /\ ResolvedFrom.day > ResolvedTo.day) =>
          /\ nfResult = LedgerError("INVALID_DATE_RANGE")
          /\ call.tool \in ReadTools =>
                /\ call.response = ErrorResponse("INVALID_DATE_RANGE")
                /\ AllIdle
    /\ nfResult.ok =>
          /\ ~StrGreater(nfResult.value.from, nfResult.value.to)
          /\ ResolvedFrom.day <= ResolvedTo.day
    /\ \A t \in Tasks :
          (task[t].pc # "idle" /\ IsReadOp(task[t].op)) =>
              /\ ~StrGreater(task[t].input.from, task[t].input.to)
              /\ parseUtcDay(task[t].input.from).day
                     <= parseUtcDay(task[t].input.to).day

\* getBalance was called with from = 2027-01-01 and no to, after today, and
\* has returned INVALID_DATE_RANGE without a provider call
C9_Witness ==
    /\ call.pc = "returned"
    /\ call.tool = "getBalance"
    /\ call.input.from = IsoDate(2027, 1, 1)
    /\ call.input.to = Undefined
    /\ nfResult = LedgerError("INVALID_DATE_RANGE")
    /\ call.response = ErrorResponse("INVALID_DATE_RANGE")
    /\ AllIdle

(***************************************************************************)
(* Properties of the calls of one caller, checked under SpecSeq            *)
(***************************************************************************)
\* The day, counted from the epoch, of a time stamp YYYY-MM-DDTHH:MM:SS.mmmZ
EpochDay(text) ==
    DaysFromCivil(Num4(text.date, 1), Num2(text.date, 6), Num2(text.date, 9))

\* Time stamp a is not later than time stamp b
NotAfter(a, b) ==
    \/ EpochDay(a) < EpochDay(b)
    \/ EpochDay(a) = EpochDay(b) /\ a.ms <= b.ms

\* The expense lies in [from T00:00:00.000Z, to T23:59:59.999Z] and in the
\* agent scope of the filters
InWindowAndScope(expense, filters) ==
    /\ NotAfter(Iso(filters.from, 0), expense.occurredAt)
    /\ NotAfter(expense.occurredAt, Iso(filters.to, 86399999))
    /\ filters.agentId = Undefined \/ expense.agentId = filters.agentId

\* C11: for every filter set with from <= to, getExpenses of the in-memory
\* provider returns exactly the stored expenses whose occurredAt lies in
\* [from T00:00:00.000Z, to T23:59:59.999Z], both ends included, and whose
\* agentId is filters.agentId when one is given: each returned expense is a
\* stored one inside the window and scope, and each stored one inside them is
\* returned, once.
C11_WindowAndScopeExact ==
    (/\ IsDone("t1", "mock", "getExpenses")
     /\ task["t1"].input.currency = USD
     /\ ~StrGreater(task["t1"].input.from, task["t1"].input.to)) =>
        /\ task["t1"].result.ok
        /\ LET returned == task["t1"].result.value.expenses
                matching == {j \in DOMAIN mockExpenses :
                                InWindowAndScope(mockExpenses[j], task["t1"].input)}
           IN  /\ \A i \in DOMAIN returned :
                      \E j \in matching : returned[i] = mockExpenses[j]
               /\ \A j \in matching :
                      \E i \in DOMAIN returned : returned[i] = mockExpenses[j]
               /\ Len(returned) = Cardinality(matching)

\* The store holds a recording of the first millisecond of 2026-02-10 and one
\* of the first millisecond of 2026-02-21; a read of 2026-02-10..2026-02-20
\* has returned the first and not the second
C11_Witness ==
    /\ IsDone("t1", "mock", "getExpenses")
    /\ task["t1"].result.ok
    /\ task["t1"].input.from = IsoDate(2026, 2, 10)
    /\ task["t1"].input.to = IsoDate(2026, 2, 20)
    /\ \E i, j \in DOMAIN mockExpenses :
          /\ mockExpenses[i].occurredAt = Iso(IsoDate(2026, 2, 10), 0)
          /\ mockExpenses[j].occurredAt = Iso(IsoDate(2026, 2, 21), 0)
          /\ \E k \in DOMAIN task["t1"].result.value.expenses :
                 task["t1"].result.value.expenses[k] = mockExpenses[i]
          /\ \A k \in DOMAIN task["t1"].result.value.expenses :
                 task["t1"].result.value.expenses[k] # mockExpenses[j]

\* The caller has made the same read twice and holds both results
ReadTwice ==
    /\ task["t1"].pc = "done"
    /\ task["t2"].pc = "done"
    /\ task["t1"].op \in {"getExpenses", "getBalance"}
    /\ task["t2"].op = task["t1"].op
    /\ task["t2"].input = task["t1"].input
    /\ task["t2"].provider = task["t1"].provider
    /\ task["t1"].result.ok
    /\ task["t2"].result.ok

\* C12: two getExpenses calls, or two getBalance calls, with the same filters
\* and no trackExpense between or during them return the same summary
\* (totalExpenseMinor, expenseCount, byAgent and byCategory with their order)
\* and the same totals, on the in-memory provider and on the relational
\* provider, whatever order the database returns grouped rows in.
C12_ReadsRepeat ==
    ReadTwice =>
        IF task["t1"].op = "getExpenses"
        THEN task["t1"].result.value.summary = task["t2"].result.value.summary
        ELSE task["t1"].result.value.totals = task["t2"].result.value.totals

\* The expenses a provider has stored, with occurredAt as a time stamp text
StoredExpenses(provider, mockStore, expensesT) ==
    IF provider = "mock" THEN mockStore
    ELSE [i \in DOMAIN expensesT |->
             [agentId     |-> expensesT[i].agentId,
              amountMinor |-> expensesT[i].amountMinor,
              occurredAt  |-> toISOString(expensesT[i].occurredAt)]]

\* The sum of the stored amounts inside the window and scope of the filters
StoredSpent(stored, filters) ==
    LET Inside(expense) == InWindowAndScope(expense, filters)
    IN  SumAmountMinor(Filter(stored, Inside))

\* The ids of the agents a provider knows
KnownAgents(provider) ==
    IF provider = "mock" THEN {AGENTS[i].id : i \in DOMAIN AGENTS}
    ELSE {agents[i].id : i \in DOMAIN agents}

\* A getBalance scoped to a known agent returns one row, of that agent, whose
\* spentMinor is the sum of the agent's stored amounts inside the window, at
\* least each of those amounts, and whose remainingMinor is startingMinor -
\* spentMinor; startingMinor of agent-atlas is 250000
ScopedBalanceIsStoredSpent ==
    (/\ task["t1"].pc = "done"
     /\ task["t1"].op = "getBalance"
     /\ task["t1"].result.ok
     /\ task["t1"].input.agentId \in KnownAgents(task["t1"].provider)) =>
        LET filters  == task["t1"].input
            balances == task["t1"].result.value.balances
            stored   == StoredExpenses(task["t1"].provider, mockExpenses, expenses)
        IN  /\ Len(balances) = 1
            /\ balances[1].agentId = filters.agentId
            /\ balances[1].spentMinor = StoredSpent(stored, filters)
            /\ \A i \in DOMAIN stored :
                   InWindowAndScope(stored[i], filters) =>
                       balances[1].spentMinor >= stored[i].amountMinor
            /\ balances[1].remainingMinor
                   = balances[1].startingMinor - balances[1].spentMinor
            /\ filters.agentId = AGENT_ATLAS => balances[1].startingMinor = 250000

\* The step with which a trackExpense call returns its expense raises, by the
\* amount recorded, the stored sum of every window that holds the occurredAt
\* recorded and is scoped to the agent recorded
TrackRaisesStoredSpent ==
    (/\ task["t1"].pc # "done"
     /\ task'["t1"].pc = "done"
     /\ task'["t1"].op = "trackExpense"
     /\ task'["t1"].result.ok) =>
        \A filters \in SeqFilters :
            (/\ filters.agentId = task'["t1"].input.agentId
             /\ InWindowAndScope(task'["t1"].input, filters)) =>
                StoredSpent(StoredExpenses(task'["t1"].provider,
                                           mockExpenses', expenses'), filters)
                    = StoredSpent(StoredExpenses(task'["t1"].provider,
                                                 mockExpenses, expenses), filters)
                          + task'["t1"].input.amountMinor

\* C13: after a successful trackExpense of amount a for agent X with
\* occurredAt inside [from, to], a following getBalance scoped to X over that
\* window returns a row for X whose spentMinor is the earlier spentMinor plus
\* a, hence at least a, and whose remainingMinor is startingMinor -
\* spentMinor; for agent-atlas startingMinor is 250000 on both providers.
C13_BalanceReadsOwnWrite ==
    []ScopedBalanceIsStoredSpent /\ [][TrackRaisesStoredSpent]_vars

\* The relational provider has stored two recordings for agent-atlas inside
\* 2026-02-10..2026-02-20, and a getBalance scoped to agent-atlas over that
\* window has returned spentMinor 2500 of startingMinor 250000
C13_Witness ==
    /\ IsDone("t1", "puzzle", "getBalance")
    /\ task["t1"].result.ok
    /\ task["t1"].input.agentId = AGENT_ATLAS
    /\ task["t1"].input.from = IsoDate(2026, 2, 10)
    /\ Len(expenses) = 2
    /\ Len(task["t1"].result.value.balances) = 1
    /\ task["t1"].result.value.balances[1].spentMinor = 2500
    /\ task["t1"].result.value.balances[1].startingMinor = 250000
    /\ task["t1"].result.value.balances[1].remainingMinor = 247500

\* The fixed roster of the in-memory provider
Roster == {AGENT_ATLAS, AGENT_BEACON, AGENT_CIPHER}

\* A trackExpense call of the in-memory provider for an agent outside the
\* roster, in USD
IsOutsiderTrack(call1) ==
    /\ call1.pc = "done"
    /\ call1.provider = "mock"
    /\ call1.op = "trackExpense"
    /\ call1.input.currency = USD
    /\ call1.input.agentId \notin Roster

\* Such a call has failed with INVALID_AGENT; the store holds expenses of
\* roster agents only; and a getBalance without agentId reports the three
\* roster agents
RosterIsFixed ==
    /\ IsOutsiderTrack(task["t1"]) =>
          /\ task["t1"].result = LedgerError("INVALID_AGENT")
          /\ ~task["t1"].loc.inserted
    /\ \A i \in DOMAIN mockExpenses : mockExpenses[i].agentId \in Roster
    /\ \A t \in Tasks :
          (/\ IsDone(t, "mock", "getBalance")
           /\ task[t].result.ok
           /\ task[t].input.agentId = Undefined) =>
              /\ Len(task[t].result.value.balances) = 3
              /\ {task[t].result.value.balances[i].agentId :
                     i \in DOMAIN task[t].result.value.balances} = Roster

\* The step of such a call leaves the store as it is
OutsiderTrackStoresNothing ==
    (task["t1"].pc = "idle" /\ IsOutsiderTrack(task'["t1"])) =>
        mockExpenses' = mockExpenses

\* C15: on the in-memory provider trackExpense with an agentId outside the
\* roster agent-atlas, agent-beacon, agent-cipher (the input in USD) fails
\* with INVALID_AGENT, creates no agent and appends no expense; getBalance of
\* the in-memory provider reports the same three agents after any sequence of
\* operations.
C15_RosterIsFixed ==
    []RosterIsFixed /\ [][OutsiderTrackStoresNothing]_vars

\* After a recording for agent-atlas was stored, a recording for agent-nova
\* has failed with INVALID_AGENT
C15_Witness ==
    /\ IsOutsiderTrack(task["t1"])
    /\ task["t1"].input.agentId = AGENT_NOVA
    /\ task["t1"].result = LedgerError("INVALID_AGENT")
    /\ Len(mockExpenses) = Len(SEED_MOCK_EXPENSES) + 1

\* A call of the relational provider that has failed
PuzzleFailed(t) ==
    /\ task[t].pc = "done"
    /\ task[t].provider = "puzzle"
    /\ ~task[t].result.ok

\* The error a failed call of the relational provider is expected to end
\* with: the typed error of the check that rejected the input, and
\* PROVIDER_UNAVAILABLE with the driver's message for everything else
ExpectedPuzzleError(call1, e) ==
    IF call1.input.currency # USD
    THEN LedgerError("UNSUPPORTED_CURRENCY")
    ELSE IF e.PUZZLE_DATABASE_URL = Undefined \/ trim(e.PUZZLE_DATABASE_URL) = <<>>
    THEN LedgerError("PROVIDER_NOT_CONFIGURED")
    ELSE IF call1.op = "trackExpense" /\ ~DateParse(call1.input.occurredAt).valid
    THEN LedgerError("INVALID_DATE")
    ELSE ProviderUnavailable("DatabaseError")

\* C16: every failure of getExpenses, getBalance or trackExpense of the
\* relational provider reaches the caller as a typed ledger error: an error
\* of the driver (connection failure, constraint violation) as
\* PROVIDER_UNAVAILABLE carrying the driver's message, and UNSUPPORTED_CURRENCY,
\* PROVIDER_NOT_CONFIGURED and INVALID_DATE with their kind unchanged.
C16_PuzzleErrorsAreTyped ==
    \A t \in Tasks :
        PuzzleFailed(t) =>
            /\ task[t].result.ledger
            /\ task[t].result = ExpectedPuzzleError(task[t], env)

\* A recording of amount 0 was refused by the amount constraint of a server
\* that answers every statement, and came back as PROVIDER_UNAVAILABLE
C16_Witness ==
    /\ PuzzleFailed("t1")
    /\ task["t1"].op = "trackExpense"
    /\ task["t1"].input.amountMinor = 0
    /\ env.PUZZLE_DATABASE_URL = RELIABLE_URL
    /\ task["t1"].result.code = "PROVIDER_UNAVAILABLE"
    /\ task["t1"].result.message = "DatabaseError"

\* No entry of the list is followed by a later one
NewestFirst(list) ==
    \A i \in 1..(Len(list) - 1) :
        NotAfter(list[i + 1].occurredAt, list[i].occurredAt)

\* C18: the expenses array getExpenses returns is ordered newest first: of
\* every two adjacent entries the earlier one's occurredAt is greater than or
\* equal to the later one's, in every store state recordings with any
\* occurredAt lead to, on both providers.
C18_NewestFirst ==
    \A t \in Tasks :
        (/\ task[t].pc = "done"
         /\ task[t].op = "getExpenses"
         /\ task[t].result.ok) =>
            NewestFirst(task[t].result.value.expenses)

\* The in-memory store holds a recorded expense and is itself not ordered
\* newest first; the read has returned three entries or more, the recorded
\* one among them
C18_Witness ==
    /\ IsDone("t1", "mock", "getExpenses")
    /\ task["t1"].result.ok
    /\ Len(mockExpenses) > Len(SEED_MOCK_EXPENSES)
    /\ ~NewestFirst(mockExpenses)
    /\ Len(task["t1"].result.value.expenses) >= 3
    /\ \E i \in DOMAIN task["t1"].result.value.expenses :
          task["t1"].result.value.expenses[i].id = mockExpenses[Len(mockExpenses)].id

\* The returned expenses of one agent, and of one category
ExpensesOfAgent(list, agentId) ==
    LET Mine(item) == item.agentId = agentId
    IN  Filter(list, Mine)

ExpensesOfCategory(list, category) ==
    LET Mine(item) == item.category = category
    IN  Filter(list, Mine)

\* No entry of the list has a smaller total than the one after it
NonIncreasing(list) ==
    \A i \in 1..(Len(list) - 1) :
        list[i].totalExpenseMinor >= list[i + 1].totalExpenseMinor

\* byAgent has one entry for each agentId of the list and no other; the entry
\* holds the sum of the agent's amounts and the agentName of the agent's
\* first expense in the list
ByAgentAggregates(list, byAgent) ==
    /\ \A i \in DOMAIN list :
          Cardinality({k \in DOMAIN byAgent :
                          byAgent[k].agentId = list[i].agentId}) = 1
    /\ \A k \in DOMAIN byAgent :
          /\ ExpensesOfAgent(list, byAgent[k].agentId) # <<>>
          /\ byAgent[k].totalExpenseMinor
                = SumAmountMinor(ExpensesOfAgent(list, byAgent[k].agentId))
          /\ byAgent[k].agentName
                = ExpensesOfAgent(list, byAgent[k].agentId)[1].agentName
    /\ NonIncreasing(byAgent)

\* The same for byCategory, categories compared as they are written
ByCategoryAggregates(list, byCategory) ==
    /\ \A i \in DOMAIN list :
          Cardinality({k \in DOMAIN byCategory :
                          byCategory[k].category = list[i].category}) = 1
    /\ \A k \in DOMAIN byCategory :
          /\ ExpensesOfCategory(list, byCategory[k].category) # <<>>
          /\ byCategory[k].totalExpenseMinor
                = SumAmountMinor(ExpensesOfCategory(list, byCategory[k].category))
    /\ NonIncreasing(byCategory)

OneRowPerAgent(balances) ==
    \A i, k \in DOMAIN balances :
        balances[i].agentId = balances[k].agentId => i = k

\* The rows a getBalance result has are the rows of the agents in scope:
\* every known agent without agentId, the named agent alone when it is known
\* (with spentMinor 0 when the store holds no expense of it inside the
\* window), and no row with all-zero totals when it is not known
RowsAreTheScope(provider, filters, value, stored) ==
    /\ OneRowPerAgent(value.balances)
    /\ filters.agentId = Undefined =>
          {value.balances[i].agentId : i \in DOMAIN value.balances}
              = KnownAgents(provider)
    /\ filters.agentId \in KnownAgents(provider) =>
          /\ Len(value.balances) = 1
          /\ value.balances[1].agentId = filters.agentId
          /\ (\A i \in DOMAIN stored : ~InWindowAndScope(stored[i], filters)) =>
                value.balances[1].spentMinor = 0
    /\ (filters.agentId # Undefined
          /\ filters.agentId \notin KnownAgents(provider)) =>
          /\ value.balances = <<>>
          /\ value.totals = [startingMinor |-> 0, spentMinor |-> 0,
                             remainingMinor |-> 0]

\* The provider has a store that answers: the in-memory list, or a database
\* that is configured and answers every statement
CanAnswer(provider, e) ==
    \/ provider = "mock"
    \/ getPuzzleDatabase(e).ok /\ StatementFailures(e) = {FALSE}

\* C20: getBalance of the in-memory and of the relational provider returns
\* exactly one balance row per agent in scope: one row for every known agent
\* when filters.agentId is absent, exactly the one row of the named agent when
\* filters.agentId names a known agent, also when that agent has no expense in
\* the window (spentMinor = 0); when filters.agentId names no known agent the
\* result has no row and all-zero totals, and is not an error.
C20_OneRowPerAgentInScope ==
    \A t \in Tasks :
        (/\ task[t].pc = "done"
         /\ task[t].op = "getBalance"
         /\ task[t].provider \in {"mock", "puzzle"}) =>
            /\ (task[t].input.currency = USD /\ CanAnswer(task[t].provider, env)) =>
                  task[t].result.ok
            /\ task[t].result.ok =>
                  RowsAreTheScope(task[t].provider, task[t].input,
                                  task[t].result.value,
                                  StoredExpenses(task[t].provider, mockExpenses,
                                                 expenses))

\* The relational store holds an expense of agent-atlas, and a getBalance for
\* agent-nova, whom the store does not know, has returned no row and all-zero
\* totals
C20_Witness ==
    /\ IsDone("t1", "puzzle", "getBalance")
    /\ task["t1"].result.ok
    /\ task["t1"].input.agentId = AGENT_NOVA
    /\ AGENT_NOVA \notin KnownAgents("puzzle")
    /\ Len(expenses) >= 1
    /\ task["t1"].result.value.balances = <<>>
    /\ task["t1"].result.value.totals.startingMinor = 0

(***************************************************************************)
(* Further properties of the dispatch layer, checked under SpecTool        *)
(***************************************************************************)
\* What the fallback of safeNormalizeFilters is to be for an input: today for
\* both dates, the currency trimmed and in upper case, USD when there is
\* none, and the agentId trimmed, absent when nothing is left of it
FallbackFor(input) ==
    [from     |-> Today,
     to       |-> Today,
     currency |-> IF input.currency = Undefined \/ trim(input.currency) = <<>>
                  THEN USD
                  ELSE toUpperCase(trim(input.currency)),
     agentId  |-> IF input.agentId = Undefined \/ trim(input.agentId) = <<>>
                  THEN Undefined
                  ELSE trim(input.agentId)]

\* The handler holds what safeNormalizeFilters returned for nfInput: it has
\* not replaced it by the filters of a recording that succeeded
HoldsSafeFilters ==
    /\ call.pc # "idle"
    /\ ~(call.tool = "trackExpense" /\ call.pc = "returned"
           /\ ~call.response.isError)

\* C14: safeNormalizeFilters never fails: for every input it returns a filter
\* set, the result of normalizeFilters when normalizeFilters succeeds and
\* otherwise from = to = today (UTC) with the trimmed upper-cased currency
\* (USD by default); the result is used for the log only: every getExpenses
\* and getBalance of a provider is invoked with the filters normalizeFilters
\* returned, and none is invoked when normalizeFilters fails.
C14_SafeFiltersForLogOnly ==
    /\ HoldsSafeFilters =>
          call.filtersForLog = IF nfResult.ok THEN nfResult.value
                               ELSE FallbackFor(nfInput)
    /\ (call.pc # "idle" /\ call.tool \in ReadTools) =>
          /\ nfInput = call.input
          /\ ~nfResult.ok => AllIdle
          /\ \A t \in Tasks :
                 task[t].pc # "idle" =>
                     nfResult.ok /\ task[t].input = nfResult.value

\* getExpenses was called with from = 2026-13-01 and currency " eur ":
\* normalizeFilters threw a RangeError, the log filters are today, today and
\* EUR, and no provider call was made
C14_Witness ==
    /\ call.pc = "returned"
    /\ call.tool = "getExpenses"
    /\ call.input.from = IsoDate(2026, 13, 1)
    /\ call.input.currency = PADDED_EUR
    /\ nfResult = Thrown("RangeError")
    /\ call.filtersForLog.from = IsoDate(2026, 3, 5)
    /\ call.filtersForLog.to = IsoDate(2026, 3, 5)
    /\ call.filtersForLog.currency = EUR
    /\ AllIdle
\* A call of a read tool that has reached the provider
ReadDispatched ==
    /\ call.pc \in {"awaiting", "returned"}
    /\ call.tool \in ReadTools
    /\ call.provider # "none"

\* The handler has issued getExpenses and getBalance of the selected provider,
\* both with the normalized filters
BothIssuedWithSameFilters ==
    /\ task["t1"].op = "getExpenses"
    /\ task["t2"].op = "getBalance"
    /\ \A t \in Tasks :
          /\ task[t].pc # "idle"
          /\ task[t].provider = call.provider
          /\ task[t].input = nfResult.value

\* The response built from the two results
ShapedFromBoth ==
    /\ \A t \in Tasks : task[t].pc = "done" /\ task[t].result.ok
    /\ DOMAIN call.response = {"isError", "output", "props"}
    /\ call.response.props.expenses = task["t1"].result.value.expenses
    /\ call.response.props.expenseSummary = task["t1"].result.value.summary
    /\ call.response.props.balances = task["t2"].result.value.balances
    /\ call.response.props.balanceTotals = task["t2"].result.value.totals

\* C17: a call of the getExpenses or getBalance tool issues
\* provider.getExpenses and provider.getBalance with the same filters; it
\* returns a shaped result only when both have succeeded, and when either has
\* failed it returns an error alone, with nothing of the result of the call
\* that succeeded.
C17_BothOrError ==
    ReadDispatched =>
        /\ BothIssuedWithSameFilters
        /\ (call.pc = "returned" /\ ~call.response.isError) => ShapedFromBoth
        /\ (call.pc = "returned" /\ Rejected # {}) =>
              /\ call.response.isError
              /\ DOMAIN call.response = {"isError", "code", "message"}

\* The getBalance tool scoped to agent-atlas has returned an error although
\* getExpenses succeeded: getBalance lost its connection
C17_Witness ==
    /\ ReadDispatched
    /\ call.tool = "getBalance"
    /\ call.pc = "returned"
    /\ nfResult.value.agentId = AGENT_ATLAS
    /\ task["t1"].pc = "done" /\ task["t1"].result.ok
    /\ task["t2"].pc = "done" /\ ~task["t2"].result.ok
    /\ call.response = [isError |-> TRUE, code |-> "PROVIDER_UNAVAILABLE",
                        message |-> "DatabaseError"]

\* What the handler of the call under way has had thrown at it: by its
\* normaliser, by getLedgerProvider, by a provider call
NormalizerThrew ==
    IF call.tool \in ReadTools
    THEN {normalizeFilters(call.input, now)} \ {r \in {normalizeFilters(call.input, now)} : r.ok}
    ELSE {normalizeTrackExpenseInput(call.input, now)}
            \ {r \in {normalizeTrackExpenseInput(call.input, now)} : r.ok}

SelectorThrew ==
    IF NormalizerThrew = {} /\ ~getLedgerProvider(env).ok
    THEN {getLedgerProvider(env)}
    ELSE {}

ProviderThrew == {task[t].result : t \in Rejected}

ThrownAtHandler == NormalizerThrew \cup SelectorThrew \cup ProviderThrew

\* The response reports err as the pair of its kind and its message
Reports(response, err) ==
    /\ response.code = (IF err.ledger THEN err.code ELSE "INTERNAL_ERROR")
    /\ response.message = MessageOf(err)

\* C21: every failure of a tool call (getExpenses, getBalance, trackExpense)
\* is returned to the caller as a structured pair of a kind and a message: a
\* typed ledger error keeps its own kind, any other thrown error, a runtime
\* error raised inside the handler included, is reported as INTERNAL_ERROR,
\* and what a handler returns is always a response, never the thrown error
\* itself.
C21_FailuresAreStructured ==
    call.pc = "returned" =>
        /\ "isError" \in DOMAIN call.response
        /\ ThrownAtHandler # {} => call.response.isError
        /\ call.response.isError =>
              /\ DOMAIN call.response = {"isError", "code", "message"}
              /\ \E err \in ThrownAtHandler : Reports(call.response, err)

\* The trackExpense tool, sent to the provider without trackExpense, has
\* returned the TypeError as INTERNAL_ERROR
C21_Witness ==
    /\ call.pc = "returned"
    /\ call.tool = "trackExpense"
    /\ ProviderThrew = {Thrown("TypeError")}
    /\ call.response = [isError |-> TRUE, code |-> "INTERNAL_ERROR",
                        message |-> "TypeError"]

(***************************************************************************)
(* Properties of the stages of the relational trackExpense, checked under  *)
(* Spec                                                                    *)
(***************************************************************************)
TrackStages == {"upsert-agent", "load-agent", "insert-expense"}

\* The call of task t is a trackExpense of the relational provider
IsPuzzleTrack(call1) ==
    /\ call1.pc # "idle"
    /\ call1.provider = "puzzle"
    /\ call1.op = "trackExpense"

\* The stage a call may be at after one step from pc
StagesAfter(pc) ==
    CASE pc = "idle" -> {"upsert-agent", "done"}
      [] pc = "upsert-agent" -> {"load-agent", "done"}
      [] pc = "load-agent" -> {"insert-expense", "done"}
      [] pc = "insert-expense" -> {"done"}
      [] OTHER -> {"idle"}

\* A call that has reached a statement has an occurredAt that parses, and a
\* call whose occurredAt does not parse has ended with INVALID_DATE without
\* creating or inserting anything
DateIsValidatedFirst ==
    \A t \in Tasks :
        IsPuzzleTrack(task[t]) =>
            /\ task[t].pc \in TrackStages => DateParse(task[t].input.occurredAt).valid
            /\ (/\ task[t].pc = "done"
                /\ task[t].input.currency = USD
                /\ ~DateParse(task[t].input.occurredAt).valid) =>
                  /\ task[t].result = LedgerError("INVALID_DATE")
                  /\ ~task[t].loc.wasAgentCreated
                  /\ ~task[t].loc.inserted

\* The calls pass the stages in their order; table agents changes only in
\* the upsert-agent step of a call and table expenses only in the
\* insert-expense step of a call
StagesInOrder ==
    /\ \A t \in Tasks :
          (task'[t] # task[t] /\ IsPuzzleTrack(task'[t])) =>
              task'[t].pc \in StagesAfter(task[t].pc)
    /\ agents' # agents =>
          \E t \in Tasks : task[t].pc = "upsert-agent" /\ task'[t].pc = "load-agent"
    /\ expenses' # expenses =>
          \E t \in Tasks : task[t].pc = "insert-expense" /\ task'[t].pc = "done"

\* C22: in trackExpense of the relational provider occurredAt is validated
\* before the agent insert, the agent insert precedes the agent re-read and
\* the re-read precedes the expense insert; a call whose occurredAt does not
\* parse fails with INVALID_DATE and creates neither an agent row nor an
\* expense row, even when agentId is unknown.
C22_StageOrder ==
    []DateIsValidatedFirst /\ [][StagesInOrder]_vars

\* A recording for agent-nova with an occurredAt that is no time stamp has
\* failed with INVALID_DATE, and table agents has no row agent-nova
C22_Witness ==
    /\ IsPuzzleTrack(task["t2"])
    /\ task["t2"].pc = "done"
    /\ task["t2"].input.agentId = AGENT_NOVA
    /\ ~DateParse(task["t2"].input.occurredAt).valid
    /\ task["t2"].result = LedgerError("INVALID_DATE")
    /\ \A i \in DOMAIN agents : agents[i].id # AGENT_NOVA

\* The stages the claim names
TracedStages ==
    {"connect-db", "validate-occurredAt", "upsert-agent", "load-agent",
     "insert-expense"}

\* A line that ends a call: expense-inserted with status ok, or an error
IsTerminalRecord(record) ==
    \/ record.stage = "expense-inserted" /\ record.status = "ok"
    \/ record.status = "error"

\* The lines of one finished call: all under one trace id and for the agent
\* of the call; one terminal line, the last; a line with status ok for each
\* stage the call got through, which is every stage when the call succeeded;
\* and, when it failed, an error line that names one of the stages
TraceIsComplete(call1) ==
    /\ call1.loc.trace # <<>>
    /\ \A i \in DOMAIN call1.loc.trace :
          /\ call1.loc.trace[i].traceId = call1.loc.trace[1].traceId
          /\ call1.loc.trace[i].agentId = call1.input.agentId
          /\ IsTerminalRecord(call1.loc.trace[i]) <=> i = Len(call1.loc.trace)
    /\ call1.result.ok =>
          \A stage \in TracedStages :
              \E i \in DOMAIN call1.loc.trace :
                  /\ call1.loc.trace[i].stage = stage
                  /\ call1.loc.trace[i].status = "ok"
    /\ ~call1.result.ok =>
          call1.loc.trace[Len(call1.loc.trace)].stage \in TracedStages

\* C24: every stage of a trackExpense call of the relational provider
\* (connect-db, validate-occurredAt, upsert-agent, load-agent, insert-expense)
\* emits a trace record with its stage name, agent id and ok/error status;
\* all records of one call carry the same trace id, and every call ends with
\* exactly one terminal record, either expense-inserted with status ok or an
\* error record naming the stage that failed.
C24_EveryStageTraced ==
    \A t \in Tasks :
        (IsPuzzleTrack(task[t]) /\ task[t].pc = "done") =>
            TraceIsComplete(task[t])

(***************************************************************************)
(* Properties of the stores under two callers, checked under Spec          *)
(***************************************************************************)
\* A step in which a caller starts a read of the in-memory provider
MockReadStep ==
    \E t \in Tasks :
        /\ task[t].pc = "idle"
        /\ task'[t].pc = "done"
        /\ task'[t].provider = "mock"
        /\ task'[t].op \in {"getExpenses", "getBalance"}

\* A step in which a trackExpense call of the in-memory provider returns
MockTrackStep ==
    \E t \in Tasks :
        /\ task[t].pc = "idle"
        /\ task'[t].pc = "done"
        /\ task'[t].provider = "mock"
        /\ task'[t].op = "trackExpense"

\* Reads leave the list as it is; any step that changes it is a trackExpense
\* step and appends one expense to it
OnlyAppends ==
    /\ MockReadStep => mockExpenses' = mockExpenses
    /\ mockExpenses' # mockExpenses =>
          /\ MockTrackStep
          /\ Len(mockExpenses') = Len(mockExpenses) + 1
          /\ SubSeq(mockExpenses', 1, Len(mockExpenses)) = mockExpenses

\* Every expense a getExpenses result holds is a stored expense, field by
\* field
ReadsSeeWholeExpenses ==
    \A t \in Tasks :
        (IsDone(t, "mock", "getExpenses") /\ task[t].result.ok) =>
            \A i \in DOMAIN task[t].result.value.expenses :
                \E k \in DOMAIN mockExpenses :
                    task[t].result.value.expenses[i] = mockExpenses[k]

\* C25: the in-memory store is append-only: getExpenses and getBalance leave
\* the stored expenses unchanged (same expenses, same field values, same
\* order), trackExpense changes them only by appending one expense, and no
\* operation modifies or removes a stored expense, so a read interleaved with
\* writes sees each expense either completely or not at all.
C25_AppendOnly ==
    []ReadsSeeWholeExpenses /\ [][OnlyAppends]_vars

\* One caller holds a getExpenses result of three or more expenses; the
\* other holds the result of a recording whose expense, now stored, is not in
\* that result
C25_Witness ==
    /\ IsDone("t1", "mock", "getExpenses")
    /\ task["t1"].result.ok
    /\ Len(task["t1"].result.value.expenses) >= 3
    /\ IsDone("t2", "mock", "trackExpense")
    /\ task["t2"].result.ok
    /\ mockExpenses[Len(mockExpenses)] = task["t2"].result.value.expense
    /\ \A i \in DOMAIN task["t1"].result.value.expenses :
          task["t1"].result.value.expenses[i].id
              # task["t2"].result.value.expense.id

\* Every stored expense has a positive whole amount and an agent that exists,
\* and in the relational store the currency USD; every agent row has a
\* starting balance that is not negative
StoresAreSound ==
    /\ \A i \in DOMAIN mockExpenses :
          /\ mockExpenses[i].amountMinor \in Nat \ {0}
          /\ \E k \in DOMAIN AGENTS : AGENTS[k].id = mockExpenses[i].agentId
    /\ \A i \in DOMAIN expenses :
          /\ expenses[i].amountMinor \in Nat \ {0}
          /\ expenses[i].currency = USD
          /\ \E k \in DOMAIN agents : agents[k].id = expenses[i].agentId
    /\ \A k \in DOMAIN agents : agents[k].startingMinor >= 0
    /\ \A k \in DOMAIN AGENTS : STARTING_BALANCE_BY_AGENT(AGENTS[k].id) >= 0

\* C26: on both providers, in every state reachable by any sequence and
\* interleaving of trackExpense calls, every stored expense has an integer
\* amountMinor > 0, currency USD (relational), and an agentId that names an
\* existing agent (the seed roster of the in-memory provider, an agent row of
\* the relational provider); every agent has startingMinor >= 0.
C26_StoreInvariant == StoresAreSound

\* Both stores hold a recorded expense, table agents has the row created for
\* agent-nova, and a recording of amount 0 has just been refused
C26_Witness ==
    /\ Len(mockExpenses) > Len(SEED_MOCK_EXPENSES)
    /\ Len(expenses) >= 1
    /\ \E k \in DOMAIN agents :
          agents[k].id = AGENT_NOVA /\ agents[k].startingMinor = 0
    /\ IsPuzzleTrack(task["t2"])
    /\ task["t2"].pc = "done"
    /\ task["t2"].input.amountMinor = 0
    /\ ~task["t2"].result.ok

\* id is exp-N with N one more than the highest N among the ids of the store
\* (the ids of a store of k expenses are looked for among exp-001..exp-k+1)
IsNextId(id, store) ==
    \E n \in 1..(Len(store) + 1) :
        /\ id = ExpId(n)
        /\ n = 1 \/ \E i \in DOMAIN store : store[i].id = ExpId(n - 1)
        /\ \A i \in DOMAIN store, k \in n..(Len(store) + 1) :
              store[i].id # ExpId(k)

\* The stored ids are pairwise distinct
IdsAreDistinct ==
    \A i, k \in DOMAIN mockExpenses :
        mockExpenses[i].id = mockExpenses[k].id => i = k

\* A step that stores an expense appends it under the next id and returns
\* that id to the caller; the ids stored before stay where they are
IdIsNextOrdinal ==
    mockExpenses' # mockExpenses =>
        /\ Len(mockExpenses') = Len(mockExpenses) + 1
        /\ SubSeq(mockExpenses', 1, Len(mockExpenses)) = mockExpenses
        /\ IsNextId(mockExpenses'[Len(mockExpenses')].id, mockExpenses)
        /\ \E t \in Tasks :
              /\ task[t].pc = "idle"
              /\ task'[t].pc = "done"
              /\ task'[t].result.ok
              /\ task'[t].result.value.expense.id
                    = mockExpenses'[Len(mockExpenses')].id

\* C23: each successful trackExpense of the in-memory provider gives the new
\* expense the id exp-N, N one more than the highest numeric suffix among the
\* stored ids; after any sequence of calls, also of two callers at once, the
\* stored ids are pairwise distinct and no id is given out twice.
C23_IdsAreSequential ==
    []IdsAreDistinct /\ [][IdIsNextOrdinal]_vars

\* Two callers hold the results of their recordings at the same time:
\* exp-011 and exp-012
C23_Witness ==
    /\ \A t \in Tasks : IsDone(t, "mock", "trackExpense") /\ task[t].result.ok
    /\ {task[t].result.value.expense.id : t \in Tasks} = {ExpId(11), ExpId(12)}
    /\ Len(mockExpenses) = 12

\* The agent of the call has a row
HasAgentRow(agentsT, agentId) == \E k \in DOMAIN agentsT : agentsT[k].id = agentId

\* No step changes a row of table agents, and the upsert-agent step of a call
\* whose agent has a row leaves the table as it is and reports no creation
AgentRowsStay ==
    /\ \A k \in DOMAIN agents :
          k \in DOMAIN agents' /\ agents'[k] = agents[k]
    /\ \A t \in Tasks :
          (/\ task[t].pc = "upsert-agent"
           /\ task'[t].pc # "upsert-agent"
           /\ HasAgentRow(agents, task[t].input.agentId)) =>
              /\ agents' = agents
              /\ ~task'[t].loc.wasAgentCreated

\* The expense a call returns carries the name stored in the agent's row;
\* the row of agent-atlas is the seeded one
ReturnsStoredName ==
    /\ \E k \in DOMAIN agents : agents[k] = AgentRow(AGENT_ATLAS, ATLAS, 250000)
    /\ \A t \in Tasks :
          (IsPuzzleTrack(task[t]) /\ task[t].pc = "done" /\ task[t].result.ok) =>
              \E k \in DOMAIN agents :
                  /\ agents[k].id = task[t].input.agentId
                  /\ task[t].result.value.expense.agentName = agents[k].name
                  /\ ~task[t].loc.wasAgentCreated =>
                        Cardinality({j \in DOMAIN agents :
                                       agents[j].id = task[t].input.agentId}) = 1

\* C29: trackExpense of the relational provider for an agentId that already
\* has an agent row (seeded or auto-created earlier) leaves that row
\* unchanged: its name and startingMinor keep their values (agent-atlas stays
\* at 250000), the number of agent rows does not change, and the returned
\* expense carries the stored agent name, not the agentId.
C29_ExistingAgentUntouched ==
    []ReturnsStoredName /\ [][AgentRowsStay]_vars

\* A recording for agent-atlas has returned under the name Atlas while table
\* agents holds the three seeded rows and the one created for agent-nova
C29_Witness ==
    /\ IsPuzzleTrack(task["t1"])
    /\ task["t1"].pc = "done"
    /\ task["t1"].result.ok
    /\ task["t1"].input.agentId = AGENT_ATLAS
    /\ task["t1"].result.value.expense.agentName = ATLAS
    /\ ~task["t1"].loc.wasAgentCreated
    /\ Len(agents) = 4
    /\ agents[1] = AgentRow(AGENT_ATLAS, ATLAS, 250000)

\* C30: on both providers a trackExpense call that returns an error, at
\* whatever stage (currency check, agent check, amount check, occurredAt
\* validation, agent insert, agent re-read, expense insert), leaves the agents
\* and the expenses as they were before the call; in particular the
\* relational provider leaves no auto-created agent behind when the expense
\* insert fails.
C30_AllOrNothing ==
    \A t \in Tasks :
        (/\ task[t].pc = "done"
         /\ task[t].op = "trackExpense"
         /\ task[t].provider \in {"mock", "puzzle"}
         /\ ~task[t].result.ok) =>
            /\ ~task[t].loc.inserted
            /\ ~(/\ task[t].loc.wasAgentCreated
                 /\ HasAgentRow(agents, task[t].input.agentId))

\* The sum of totalExpenseMinor over the entries of a summary list
RECURSIVE SumTotals(_)
SumTotals(entries) ==
    IF entries = <<>> THEN 0
    ELSE entries[1].totalExpenseMinor + SumTotals(Tail(entries))

\* The count is the length of the expenses array, and byAgent and byCategory
\* each add up to the total
SummaryIsConsistent(value) ==
    /\ value.summary.expenseCount = Len(value.expenses)
    /\ SumTotals(value.summary.byAgent) = value.summary.totalExpenseMinor
    /\ SumTotals(value.summary.byCategory) = value.summary.totalExpenseMinor

\* C28: in every getExpenses result, summary.expenseCount equals the length
\* of the returned expenses array, and the totals of summary.byAgent and of
\* summary.byCategory each add up to summary.totalExpenseMinor; of the
\* relational provider this is required of the four independent queries of
\* one call, also when a trackExpense commits between them.
C28_SummaryConsistent ==
    \A t \in Tasks :
        (/\ task[t].pc = "done"
         /\ task[t].op = "getExpenses"
         /\ task[t].provider \in {"mock", "puzzle"}
         /\ task[t].result.ok) =>
            SummaryIsConsistent(task[t].result.value)

(***************************************************************************)
(* Properties of a read tool call next to a recording request, checked     *)
(* under SpecShared                                                        *)
(***************************************************************************)
\* The two halves of the props agree: the balance totals have spent what the
\* expense summary totals, and each byAgent entry has a balance row of its
\* agent with that total as spentMinor
HalvesAgree(props) ==
    /\ props.balanceTotals.spentMinor = props.expenseSummary.totalExpenseMinor
    /\ \A i \in DOMAIN props.expenseSummary.byAgent :
          \E k \in DOMAIN props.balances :
              /\ props.balances[k].agentId = props.expenseSummary.byAgent[i].agentId
              /\ props.balances[k].spentMinor
                    = props.expenseSummary.byAgent[i].totalExpenseMinor

\* A read tool call has returned its shaped result
ReadReturnedProps ==
    /\ call.pc = "returned"
    /\ call.tool \in ReadTools
    /\ ~call.response.isError

\* C27: in the result of one getExpenses or getBalance tool call,
\* balanceTotals.spentMinor equals expenseSummary.totalExpenseMinor, and for
\* every entry of expenseSummary.byAgent the balance row of the same agentId
\* has spentMinor equal to that entry's totalExpenseMinor, for the in-memory
\* provider in every reachable state and for the relational provider also
\* when a trackExpense call interleaves with the queries of the tool call.
C27_CombinedReadConsistent ==
    ReadReturnedProps => HalvesAgree(call.response.props)

====
